---- MODULE Spec2Model ----
(***************************************************************************)
(* Model of the trip-planning core of renglo/inca: the Patcher             *)
(* (handlers/patcher.py), the Applier (handlers/applier.py) and the        *)
(* Reducer (handlers/reducer.py), acting on one TripIntent document.       *)
(*                                                                         *)
(* Python values are pairs <<tag, payload>> so that a dict, a list, a       *)
(* string, an int, a bool and None stay distinct, as type(), isinstance()  *)
(* and truthiness see them; x[1] is the tag of x and x[2] its payload:     *)
(*   D(f)  dict   (f a function from key strings to values)                *)
(*   L(s)  list   (s a sequence of values)                                 *)
(*   S(x)  str,  I(n)  int,  B(b)  bool,  None                             *)
(* Objects are modelled by value: the model does not follow aliasing       *)
(* between a patch and the document it was merged into.                    *)
(***************************************************************************)
EXTENDS Integers, Sequences, FiniteSets, TLC

VARIABLES
    doc,    \* the TripIntent document (trip_intent)
    last,   \* the last handler call: its name, inputs and outputs
    aux     \* per-specification bookkeeping (second run, twin document)

vars == <<doc, last, aux>>

---------------------------------------------------------------------------
\* Python values

D(f) == <<"d", f>>
L(s) == <<"l", s>>
S(x) == <<"s", x>>
I(n) == <<"i", n>>
B(b) == <<"b", b>>
None == <<"n", "None">>

EmptyDict == D(<<>>)
EmptyList == L(<<>>)

\* A float whose value is the whole number n
F(n) == <<"f", n>>

\* bool, int and float compare by their number
IsNumber(x) == x[1] \in {"b", "i", "f"}

NumberOf(x) == IF x[1] = "b" THEN (IF x[2] THEN 1 ELSE 0) ELSE x[2]

\* a == b
RECURSIVE PyEq(_, _)
PyEq(a, b) ==
    IF IsNumber(a) /\ IsNumber(b) THEN NumberOf(a) = NumberOf(b)
    ELSE IF a[1] # b[1] THEN FALSE
    ELSE IF a[1] = "d"
    THEN /\ DOMAIN a[2] = DOMAIN b[2]
         /\ \A k \in DOMAIN a[2] : PyEq(a[2][k], b[2][k])
    ELSE IF a[1] = "l"
    THEN /\ Len(a[2]) = Len(b[2])
         /\ \A i \in 1..Len(a[2]) : PyEq(a[2][i], b[2][i])
    ELSE a = b

\* bool(x)
Truthy(x) ==
    CASE x[1] = "n" -> FALSE
      [] x[1] = "b" -> x[2]
      [] x[1] = "i" -> x[2] # 0
      [] x[1] = "f" -> x[2] # 0
      [] x[1] = "s" -> x[2] # ""
      [] OTHER     -> DOMAIN x[2] # {}

\* a or b
Or(a, b) == IF Truthy(a) THEN a ELSE b

\* type(x)
PyType(x) == x[1]

IsDict(x) == x[1] = "d"
IsList(x) == x[1] = "l"

\* k in d
Has(d, k) == k \in DOMAIN d[2]

\* d.get(k, default) and d.get(k)
Get(d, k, default) == IF k \in DOMAIN d[2] THEN d[2][k] ELSE default
GetN(d, k) == Get(d, k, None)

\* d[k] = x
Put(d, k, x) == D([kk \in DOMAIN d[2] \cup {k} |-> IF kk = k THEN x ELSE d[2][kk]])

\* d.setdefault(k, x), as the dict it leaves
SetDefault(d, k, x) == IF k \in DOMAIN d[2] THEN d ELSE Put(d, k, x)

\* del d[k]
Del(d, k) == D([kk \in DOMAIN d[2] \ {k} |-> d[2][kk]])

\* l.append(x)
ListAppend(l, x) == L(Append(l[2], x))

\* s.startswith(p)
StartsWith(s, p) == Len(s) >= Len(p) /\ SubSeq(s, 1, Len(p)) = p

\* (d.get(k1) or {}).get(k2) ... : the value at a path of keys, None when the
\* path leaves the dicts
RECURSIVE AtPath(_, _)
AtPath(x, path) ==
    IF path = <<>> THEN x
    ELSE IF x[1] = "d" /\ Head(path) \in DOMAIN x[2]
         THEN AtPath(x[2][Head(path)], Tail(path))
         ELSE None

---------------------------------------------------------------------------
\* Patcher (handlers/patcher.py)

EmptySelected ==
    D([bundle_id |-> None, flight_option_id |-> None, hotel_option_id |-> None,
       flight_option_ids |-> EmptyList, hotel_option_ids |-> EmptyList])

\* if isinstance(sel, dict): sel.setdefault(...)
SelectedDefaults(wm) ==
    IF IsDict(wm[2]["selected"])
    THEN Put(wm, "selected",
             SetDefault(SetDefault(wm[2]["selected"], "flight_option_ids", EmptyList),
                        "hotel_option_ids", EmptyList))
    ELSE wm

_ensure_working_memory_defaults(wm) ==
    LET w1 == SetDefault(wm, "flight_quotes", EmptyList)
        w2 == SetDefault(w1, "hotel_quotes", EmptyList)
        w3 == SetDefault(w2, "flight_quotes_by_segment", EmptyList)
        w4 == SetDefault(w3, "hotel_quotes_by_stay", EmptyList)
        w5 == SetDefault(w4, "ranked_bundles", EmptyList)
        w6 == SetDefault(w5, "risk_report", None)
        w7 == SetDefault(w6, "holds", EmptyList)
        w8 == SetDefault(w7, "bookings", EmptyList)
    IN  SelectedDefaults(SetDefault(w8, "selected", EmptySelected))

\* The mutant merges a list of the patch into a list of the document
\* position by position.
RECURSIVE DeepMergeMutant(_, _)
DeepMergeMutant(dst, patch) ==
    D([k \in DOMAIN dst[2] \cup DOMAIN patch[2] |->
        IF k \notin DOMAIN patch[2] THEN dst[2][k]
        ELSE IF IsDict(patch[2][k]) /\ k \in DOMAIN dst[2] /\ IsDict(dst[2][k])
             THEN DeepMergeMutant(dst[2][k], patch[2][k])
        ELSE IF IsList(patch[2][k]) /\ k \in DOMAIN dst[2] /\ IsList(dst[2][k])
             THEN L([i \in 1..(IF Len(dst[2][k][2]) > Len(patch[2][k][2])
                               THEN Len(dst[2][k][2]) ELSE Len(patch[2][k][2])) |->
                       IF i <= Len(patch[2][k][2]) THEN patch[2][k][2][i]
                       ELSE dst[2][k][2][i]])
             ELSE patch[2][k]])

RECURSIVE _deep_merge(_, _)
_deep_merge(dst, patch) ==
    D([k \in DOMAIN dst[2] \cup DOMAIN patch[2] |->
        IF k \notin DOMAIN patch[2] THEN dst[2][k]
        ELSE IF IsDict(patch[2][k]) /\ k \in DOMAIN dst[2] /\ IsDict(dst[2][k])
             THEN _deep_merge(dst[2][k], patch[2][k])
             ELSE patch[2][k]])

\* prefix or "$"
PrefixOrRoot(prefix) == IF prefix = "" THEN "$" ELSE prefix

\* The changed paths as a set: the list the code returns holds each path
\* once, in the iteration order of a set of keys.
RECURSIVE _compute_changed_paths(_, _, _)
_compute_changed_paths(before, after, prefix) ==
    IF PyType(before) # PyType(after) THEN {PrefixOrRoot(prefix)}
    ELSE IF IsDict(before)
    THEN UNION { LET p == IF prefix # "" THEN prefix \o "." \o k ELSE k
                 IN  IF k \notin DOMAIN before[2] \/ k \notin DOMAIN after[2]
                     THEN {p}
                     ELSE _compute_changed_paths(before[2][k], after[2][k], p)
                 : k \in DOMAIN before[2] \cup DOMAIN after[2] }
    ELSE IF ~PyEq(before, after) THEN {PrefixOrRoot(prefix)} ELSE {}

\* any_startswith(prefixes), prefixes a set of strings
any_startswith(changed_paths, prefixes) ==
    \E cp \in changed_paths : \E pref \in prefixes : StartsWith(cp, pref)

\* clear_key and clear_selection act on st = [wm, cleared, reasons]
clear_key(st, key, reason) ==
    IF key \notin DOMAIN st.wm[2] THEN st
    ELSE [wm      |-> Put(st.wm, key, IF IsList(st.wm[2][key]) THEN EmptyList ELSE None),
          cleared |-> Append(st.cleared, "working_memory." \o key),
          reasons |-> Append(st.reasons, reason)]

clear_selection(st, reason) ==
    [wm      |-> Put(st.wm, "selected", EmptySelected),
     cleared |-> Append(st.cleared, "working_memory.selected"),
     reasons |-> Append(st.reasons, reason)]

FlightRule(st) ==
    LET s1 == clear_key(st, "flight_quotes", "Flight inputs changed -> cleared flight quotes.")
        s2 == clear_key(s1, "flight_quotes_by_segment", "Flight inputs changed -> cleared flight quotes by segment.")
        s3 == clear_key(s2, "ranked_bundles", "Flight inputs changed -> cleared ranked bundles.")
        s4 == clear_key(s3, "risk_report", "Flight inputs changed -> cleared risk report.")
        s5 == clear_key(s4, "holds", "Flight inputs changed -> cleared holds.")
    IN  clear_selection(s5, "Selection cleared because flight-derived artifacts are stale.")

\* The mutant clears the flight quotes along with the hotel quotes.
HotelRuleMutant(st) ==
    clear_selection(
        clear_key(clear_key(clear_key(clear_key(clear_key(clear_key(st,
            "flight_quotes", "cleared"), "hotel_quotes", "cleared"),
            "hotel_quotes_by_stay", "cleared"), "ranked_bundles", "cleared"),
            "risk_report", "cleared"), "holds", "cleared"),
        "cleared")

HotelRule(st) ==
    LET s1 == clear_key(st, "hotel_quotes", "Hotel inputs changed -> cleared hotel quotes.")
        s2 == clear_key(s1, "hotel_quotes_by_stay", "Hotel inputs changed -> cleared hotel quotes by stay.")
        s3 == clear_key(s2, "ranked_bundles", "Hotel inputs changed -> cleared ranked bundles.")
        s4 == clear_key(s3, "risk_report", "Hotel inputs changed -> cleared risk report.")
        s5 == clear_key(s4, "holds", "Hotel inputs changed -> cleared holds.")
    IN  clear_selection(s5, "Selection cleared because hotel-derived artifacts are stale.")

\* if wm.get("risk_report") is not None: clear_key("risk_report", ...)
PolicyRiskRule(st) ==
    IF GetN(st.wm, "risk_report") # None
    THEN clear_key(st, "risk_report", "Policy/constraints changed -> cleared risk report.")
    ELSE st

\* if any(cp.startswith("constraints.budget_total") or ...): if wm.get("holds"): ...
PolicyHoldsRule(st, changed_paths) ==
    IF /\ \E cp \in changed_paths :
             \/ StartsWith(cp, "constraints.budget_total")
             \/ StartsWith(cp, "constraints.refundable_preference")
       /\ Truthy(GetN(st.wm, "holds"))
    THEN clear_key(st, "holds", "Budget/refundability changed -> cleared holds for safety.")
    ELSE st

PolicyRule(st, changed_paths) == PolicyHoldsRule(PolicyRiskRule(st), changed_paths)

\* The three rules of _invalidate_caches, each behind its guard
WhenFlightInputsChanged(st, changed_paths) ==
    IF any_startswith(changed_paths, {"itinerary.segments", "preferences.flight", "party.travelers"})
    THEN FlightRule(st) ELSE st

WhenHotelInputsChanged(st, changed_paths) ==
    IF any_startswith(changed_paths, {"itinerary.lodging", "preferences.hotel"})
    THEN HotelRule(st) ELSE st

WhenPolicyChanged(st, changed_paths) ==
    IF any_startswith(changed_paths, {"policy", "constraints"})
    THEN PolicyRule(st, changed_paths) ELSE st

\* return cleared, reasons (and the document with the working memory left)
Invalidated(trip_intent, st) ==
    [trip_intent |-> Put(trip_intent, "working_memory", st.wm),
     cleared |-> st.cleared, reasons |-> st.reasons]

\* [trip_intent, cleared, reasons]
_invalidate_caches(trip_intent, changed_paths) ==
    Invalidated(trip_intent,
        WhenPolicyChanged(
            WhenHotelInputsChanged(
                WhenFlightInputsChanged(
                    [wm |-> _ensure_working_memory_defaults(
                                Get(trip_intent, "working_memory", EmptyDict)),
                     cleared |-> <<>>, reasons |-> <<>>],
                    changed_paths),
                changed_paths),
            changed_paths))

\* lodging.get("needed", True) on trip_intent.get("itinerary", {}).get("lodging", {})
LodgingNeededRaw(trip_intent) ==
    Get(Get(Get(trip_intent, "itinerary", EmptyDict), "lodging", EmptyDict), "needed", B(TRUE))

\* The hints of _suggest_next_tools, given wm and lodging_needed
SuggestedTools(wm, changed, lodging_needed) ==
    (IF changed /\ ~Truthy(GetN(wm, "flight_quotes"))
     THEN <<"flight_quote_search">> ELSE <<>>)
    \o (IF changed /\ lodging_needed /\ ~Truthy(GetN(wm, "hotel_quotes"))
        THEN <<"hotel_quote_search">> ELSE <<>>)
    \o (IF /\ Truthy(GetN(wm, "flight_quotes"))
           /\ (~lodging_needed \/ Truthy(GetN(wm, "hotel_quotes")))
           /\ ~Truthy(GetN(wm, "ranked_bundles"))
        THEN <<"trip_option_ranker">> ELSE <<>>)

_suggest_next_tools(trip_intent, changed_paths) ==
    SuggestedTools(Get(trip_intent, "working_memory", EmptyDict),
                   \E cp \in changed_paths :
                       StartsWith(cp, "itinerary.") \/ StartsWith(cp, "party.travelers"),
                   Truthy(LodgingNeededRaw(trip_intent)))

\* status.notes after Patcher.run's "Append note"
AppendNoteMutant(status, patch_source, note) ==
    Put(status, "notes",
        ListAppend(Get(status, "notes", EmptyList), S("[" \o patch_source \o "] " \o note)))

AppendNote(status, patch_source, note) ==
    IF note # ""
    THEN Put(status, "notes",
             ListAppend(Get(status, "notes", EmptyList), S("[" \o patch_source \o "] " \o note)))
    ELSE SetDefault(status, "notes", EmptyList)

\* status = trip_intent.setdefault("status", {}), with the note appended
WithNote(trip_intent, patch_source, note) ==
    Put(trip_intent, "status",
        AppendNote(Get(trip_intent, "status", EmptyDict), patch_source, note))

\* The output of Patcher.run
PatcherOutput(inv, changed_paths) ==
    [trip_intent |-> inv.trip_intent,
     changed_paths |-> changed_paths,
     cleared |-> inv.cleared,
     reasons |-> inv.reasons,
     suggested_next_tools |-> _suggest_next_tools(inv.trip_intent, changed_paths)]

\* Patcher.run from the computed changed_paths on
PatcherInvalidate(trip_intent, changed_paths) ==
    PatcherOutput(_invalidate_caches(trip_intent, changed_paths), changed_paths)

\* Patcher.run from the merged and noted document on
PatcherDiff(before, trip_intent) ==
    PatcherInvalidate(trip_intent, _compute_changed_paths(before, trip_intent, ""))

\* Patcher.run: [trip_intent, changed_paths, cleared, reasons, suggested_next_tools]
PatcherRun(trip_intent, patch, patch_source, note) ==
    PatcherDiff(trip_intent, WithNote(_deep_merge(trip_intent, patch), patch_source, note))

---------------------------------------------------------------------------
\* Reducer (handlers/reducer.py)

\* Sequence helpers for the list comprehensions and loops of the code
RECURSIVE Flatten(_)
Flatten(ss) == IF ss = <<>> THEN <<>> ELSE Head(ss) \o Flatten(Tail(ss))

\* range(n) as a sequence: <<0, ..., n-1>>
Range(n) == [i \in 1..n |-> i - 1]

\* str(x) inside an f-string, for None and strings
PyStr(x) == IF x[1] = "n" THEN "None" ELSE x[2]

\* sub in s
Contains(s, sub) ==
    \E i \in 1..(Len(s) - Len(sub) + 1) : SubSeq(s, i, i + Len(sub) - 1) = sub

ToolCall(name, arguments) == [name |-> name, arguments |-> arguments]

\* iti = trip_intent.get("itinerary", {}) or {}
Itinerary(trip_intent) == Or(Get(trip_intent, "itinerary", EmptyDict), EmptyDict)

\* segs = iti.get("segments", []) or []
Segments(trip_intent) == Or(Get(Itinerary(trip_intent), "segments", EmptyList), EmptyList)[2]

\* lodging = iti.get("lodging", {}) or {}
Lodging(trip_intent) == Or(Get(Itinerary(trip_intent), "lodging", EmptyDict), EmptyDict)

\* Indices (0-based) of the segments with transport_mode 'flight' or unset
_get_flight_segment_indices(trip_intent) ==
    LET segs == Segments(trip_intent)
        IsFlight(i) == Get(Or(segs[i + 1], EmptyDict), "transport_mode", S("flight")) = S("flight")
    IN  SelectSeq(Range(Len(segs)), IsFlight)

\* The stays of lodging.stays, or the one stay made of lodging.check_in /
\* check_out when lodging is needed
EffectiveStays(segs, lodging) ==
    IF Truthy(GetN(lodging, "stays"))
    THEN [j \in 1..Len(lodging[2]["stays"][2]) |-> Or(lodging[2]["stays"][2][j], EmptyDict)]
    ELSE IF ~Truthy(Get(lodging, "needed", B(TRUE))) THEN <<>>
    ELSE << D([location_code |-> IF segs # <<>>
                                 THEN GetN(Or(GetN(segs[1], "destination"), EmptyDict), "code")
                                 ELSE None,
               check_in      |-> GetN(lodging, "check_in"),
               check_out     |-> GetN(lodging, "check_out"),
               location_hint |-> GetN(lodging, "location_hint")]) >>

\* The mutant consults the cache: once hotel quotes are stored, no stay is
\* looked at any more.
_get_effective_staysMutant(trip_intent) ==
    IF Truthy(AtPath(trip_intent, <<"working_memory", "hotel_quotes">>)) THEN <<>>
    ELSE EffectiveStays(Segments(trip_intent), Lodging(trip_intent))

_get_effective_stays(trip_intent) ==
    EffectiveStays(Segments(trip_intent), Lodging(trip_intent))

_required_fields_missing_for_quotes(trip_intent) ==
    LET segs == Segments(trip_intent)
        SegMissing(i) ==
            LET s == Or(segs[i + 1], EmptyDict)
                at == "itinerary.segments[" \o ToString(i) \o "]"
            IN  (IF ~Truthy(GetN(Or(GetN(s, "origin"), EmptyDict), "code"))
                 THEN <<at \o ".origin.code">> ELSE <<>>)
                \o (IF ~Truthy(GetN(Or(GetN(s, "destination"), EmptyDict), "code"))
                    THEN <<at \o ".destination.code">> ELSE <<>>)
                \o (IF ~Truthy(GetN(s, "depart_date"))
                    THEN <<at \o ".depart_date">> ELSE <<>>)
        seg_missing == IF segs = <<>> THEN <<"itinerary.segments">>
                       ELSE Flatten([k \in 1..Len(segs) |-> SegMissing(k - 1)])
        adults == Get(Get(Or(Get(trip_intent, "party", EmptyDict), EmptyDict),
                          "travelers", EmptyDict), "adults", I(0))
        adults_missing == IF adults[2] < 1 THEN <<"party.travelers.adults">> ELSE <<>>
        lodging == Lodging(trip_intent)
        stays == _get_effective_stays(trip_intent)
        StayMissing(j) ==
            LET stay == stays[j + 1]
                at == "itinerary.lodging.stays[" \o ToString(j) \o "]"
            IN  (IF ~Truthy(Or(GetN(stay, "location_code"), GetN(stay, "destination")))
                 THEN <<at \o ".location_code">> ELSE <<>>)
                \o (IF ~Truthy(GetN(stay, "check_in")) THEN <<at \o ".check_in">> ELSE <<>>)
                \o (IF ~Truthy(GetN(stay, "check_out")) THEN <<at \o ".check_out">> ELSE <<>>)
        lodging_missing ==
            IF ~Truthy(Get(lodging, "needed", B(TRUE))) THEN <<>>
            ELSE IF stays = <<>>
            THEN <<"itinerary.lodging.check_in", "itinerary.lodging.check_out">>
            ELSE IF Truthy(GetN(lodging, "stays"))
            THEN Flatten([k \in 1..Len(stays) |-> StayMissing(k - 1)])
            ELSE (IF ~Truthy(GetN(lodging, "check_in"))
                  THEN <<"itinerary.lodging.check_in">> ELSE <<>>)
                 \o (IF ~Truthy(GetN(lodging, "check_out"))
                     THEN <<"itinerary.lodging.check_out">> ELSE <<>>)
    IN  seg_missing \o adults_missing \o lodging_missing

\* The confirmation keywords; the text is taken as already stripped and
\* lower-cased (the code's t = text.strip().lower()).
Confirmations ==
    {"yes", "y", "ok", "okay", "looks good", "look good", "go ahead", "correct",
     "that's right", "thats right", "confirm", "proceed", "search", "find flights",
     "find hotels", "get quotes", "sounds good", "perfect", "good", "continue"}

ConfirmLenShort == 50

_is_confirmation(t) ==
    IF t = "" THEN FALSE
    ELSE \/ t \in Confirmations
         \/ \E c \in {"yes ", "yes,", "ok ", "ok,", "sure ", "go ahead"} : StartsWith(t, c)
         \/ /\ Len(t) < ConfirmLenShort
            /\ \E c \in {"go ahead", "looks good", "sounds good", "let's go"} : Contains(t, c)

\* status["phase"], status["state"] = phase, state
SetPhaseState(status, phase, state) ==
    Put(Put(status, "phase", S(phase)), "state", S(state))

\* The index (1-based) of the first TRUE of a sequence of booleans, 0 if none:
\* next((x for x in seq if P(x)), None), for flags[i] = P(seq[i])
FirstIndex(flags) ==
    IF \E i \in 1..Len(flags) : flags[i]
    THEN CHOOSE i \in 1..Len(flags) : flags[i] /\ \A j \in 1..(i - 1) : ~flags[j]
    ELSE 0

\* Tool-call arguments carry the fields that the Applier and the dispatch
\* loop read back (segment_index, stay_index, user_message) and the fields that
\* name what is quoted, held or purchased; the intent summaries and the
\* preference maps that the code also sends are left out.

\* r = [status, wm, tool_calls, ui_messages] after the event-driven actions
\* of Reducer.run

\* The mutant leaves the state it finds.
OnUserMessageMutant(trip_intent, status, wm, event) ==
    LET s1 == Put(status, "phase", S("intake"))
        s3 == IF Has(s1, "last_tool_error") THEN Del(s1, "last_tool_error") ELSE s1
    IN  [status |-> s3, wm |-> wm,
         tool_calls |-> << ToolCall("trip_requirements_extract",
                                    D([user_message |-> event.data[2]["text"]])) >>,
         ui_messages |-> <<>>]

OnUserMessage(trip_intent, status, wm, event) ==
    LET s1 == Put(status, "phase", S("intake"))
        s2 == IF GetN(s1, "state") # S("awaiting_confirmation")
              THEN Put(s1, "state", S("collecting_requirements")) ELSE s1
        s3 == IF Has(s2, "last_tool_error") THEN Del(s2, "last_tool_error") ELSE s2
    IN  [status |-> s3, wm |-> wm,
         tool_calls |-> << ToolCall("trip_requirements_extract",
                                    D([user_message |-> event.data[2]["text"]])) >>,
         ui_messages |-> <<>>]

OnUserSelectedBundle(trip_intent, status, wm, event) ==
    LET bundle_id == event.data[2]["bundle_id"]
        sel1 == Put(wm[2]["selected"], "bundle_id", bundle_id)
        ranked == Or(GetN(wm, "ranked_bundles"), EmptyList)[2]
        bi == FirstIndex([i \in 1..Len(ranked) |-> GetN(ranked[i], "bundle_id") = bundle_id])
        sel2 == IF bi # 0 /\ Truthy(ranked[bi])
                THEN LET bundle == ranked[bi]
                     IN  Put(Put(Put(Put(sel1,
                             "flight_option_id", GetN(bundle, "flight_option_id")),
                             "hotel_option_id", GetN(bundle, "hotel_option_id")),
                             "flight_option_ids", Or(GetN(bundle, "flight_option_ids"), EmptyList)),
                             "hotel_option_ids", Or(GetN(bundle, "hotel_option_ids"), EmptyList))
                ELSE sel1
    IN  [status |-> SetPhaseState(status, "quote", "risk_checking"),
         wm |-> Put(wm, "selected", sel2),
         tool_calls |-> << ToolCall("noma/policy_and_risk_check",
                                    D([bundle_id |-> bundle_id,
                                       org_policy |-> Get(Or(Get(trip_intent, "policy", EmptyDict), EmptyDict),
                                                          "rules", EmptyDict)])) >>,
         ui_messages |-> <<>>]

\* sel.get("X_option_ids") or ([sel.get("X_option_id")] if sel.get("X_option_id") else [])
OptionIds(sel, ids_key, id_key) ==
    Or(GetN(sel, ids_key),
       IF Truthy(GetN(sel, id_key)) THEN L(<<GetN(sel, id_key)>>) ELSE EmptyList)[2]

\* The mutant lets a report with listed risks through.
HoldBlockedMutant(rr) ==
    Truthy(GetN(rr, "blocking_issues")) /\ ~Truthy(GetN(rr, "risks"))

\* elif rr.get("blocking_issues")
HoldBlocked(rr) == Truthy(GetN(rr, "blocking_issues"))

OnUserRequestHold(trip_intent, status, wm, event) ==
    LET sel == Or(Get(wm, "selected", EmptyDict), EmptyDict)
        rr == Or(GetN(wm, "risk_report"), EmptyDict)
        traveler_profile_ids ==
            Or(Get(Or(Get(trip_intent, "party", EmptyDict), EmptyDict),
                   "traveler_profile_ids", EmptyList), EmptyList)
        Item(kind, oid) == D([item_type |-> S(kind), option_id |-> oid,
                              traveler_profile_ids |-> traveler_profile_ids])
        flight_ids == SelectSeq(OptionIds(sel, "flight_option_ids", "flight_option_id"), Truthy)
        hotel_ids == SelectSeq(OptionIds(sel, "hotel_option_ids", "hotel_option_id"), Truthy)
        items == [i \in 1..Len(flight_ids) |-> Item("flight", flight_ids[i])]
                 \o [i \in 1..Len(hotel_ids) |-> Item("hotel", hotel_ids[i])]
        quiet(msg) == [status |-> status, wm |-> wm, tool_calls |-> <<>>, ui_messages |-> <<msg>>]
    IN  IF ~Truthy(GetN(sel, "bundle_id"))
        THEN quiet("Please pick a bundle_id first.")
        ELSE IF HoldBlocked(rr)
        THEN quiet("I can't place holds because the selected bundle has blocking policy issues.")
        ELSE IF items = <<>>
        THEN quiet("Missing selected flight/hotel option ids. Please select the bundle again.")
        ELSE [status |-> SetPhaseState(status, "book", "placing_holds"),
              wm |-> wm,
              tool_calls |-> << ToolCall("noma/reservation_hold_create",
                    D([idempotency_key |-> S("hold_" \o PyStr(GetN(trip_intent, "trip_id")) \o "_"
                                             \o PyStr(GetN(sel, "bundle_id"))),
                       items |-> L(items)])) >>,
              ui_messages |-> <<>>]

\* The mutant takes every hold that was not cancelled.
HeldHoldIdsMutant(holds) ==
    LET IsHeld(h) == GetN(h, "status") # S("cancelled")
        held == SelectSeq(holds, IsHeld)
    IN  [i \in 1..Len(held) |-> held[i][2]["hold_id"]]

\* [h["hold_id"] for h in holds if h.get("status") == "held"]
HeldHoldIds(holds) ==
    LET IsHeld(h) == GetN(h, "status") = S("held")
        held == SelectSeq(holds, IsHeld)
    IN  [i \in 1..Len(held) |-> held[i][2]["hold_id"]]

OnUserApprovedPurchase(trip_intent, status, wm, event) ==
    LET hold_ids == HeldHoldIds(Or(GetN(wm, "holds"), EmptyList)[2])
    IN  IF hold_ids = <<>>
        THEN [status |-> status, wm |-> wm, tool_calls |-> <<>>,
              ui_messages |-> <<"No active holds found. Say 'hold' first, then approve purchase.">>]
        ELSE [status |-> SetPhaseState(status, "book", "purchasing"),
              wm |-> wm,
              tool_calls |-> << ToolCall("noma/booking_confirm_and_purchase",
                    D([idempotency_key |-> S("purchase_" \o PyStr(GetN(trip_intent, "trip_id"))),
                       approval_token |-> event.data[2]["approval_token"],
                       hold_ids |-> L(hold_ids),
                       payment_method_id |-> event.data[2]["payment_method_id"],
                       contact_email |-> GetN(Or(Get(Or(Get(trip_intent, "party", EmptyDict), EmptyDict),
                                                     "contact", EmptyDict), EmptyDict), "email")])) >>,
              ui_messages |-> <<>>]

\* The mutant drops the holds along with reporting the error.
ToolErrorOutcomeMutant(status, wm, tool_name, error_text, now) ==
    [status |-> Put(Put(status, "last_tool_error",
                        D([tool_name |-> S(tool_name), error |-> S(error_text), at |-> I(now)])),
                    "notes",
                    ListAppend(Get(status, "notes", EmptyList),
                               S("[tool_error] " \o tool_name \o " failed: " \o error_text
                                 \o ". Say 'try again' or send a new message to re-run."))),
     wm |-> Put(wm, "holds", EmptyList), tool_calls |-> <<>>,
     ui_messages |-> <<"Tool error: " \o tool_name \o " - " \o error_text>>]

\* The TOOL_ERROR branch once phase and state are set: last_tool_error, the
\* note and the message
ToolErrorOutcome(status, wm, tool_name, error_text, now) ==
    [status |-> Put(Put(status, "last_tool_error",
                        D([tool_name |-> S(tool_name), error |-> S(error_text), at |-> I(now)])),
                    "notes",
                    ListAppend(Get(status, "notes", EmptyList),
                               S("[tool_error] " \o tool_name \o " failed: " \o error_text
                                 \o ". Say 'try again' or send a new message to re-run."))),
     wm |-> wm, tool_calls |-> <<>>,
     ui_messages |-> <<"Tool error: " \o tool_name \o " - " \o error_text>>]

\* The mutant sets the phase and leaves the state as it was.
OnToolErrorMutant(trip_intent, status, wm, event, now) ==
    ToolErrorOutcome(Put(status, "phase", S("error")), wm,
                     Get(event.data, "tool_name", S("unknown"))[2],
                     Get(event.data, "error", S("Unknown error"))[2], now)

OnToolError(trip_intent, status, wm, event, now) ==
    ToolErrorOutcome(SetPhaseState(status, "error", "retryable"), wm,
                     Get(event.data, "tool_name", S("unknown"))[2],
                     Get(event.data, "error", S("Unknown error"))[2], now)

EventActions(trip_intent, status, wm, event, now) ==
    CASE event.type = "USER_MESSAGE" -> OnUserMessage(trip_intent, status, wm, event)
      [] event.type = "USER_SELECTED_BUNDLE" -> OnUserSelectedBundle(trip_intent, status, wm, event)
      [] event.type = "USER_REQUEST_HOLD" -> OnUserRequestHold(trip_intent, status, wm, event)
      [] event.type = "USER_APPROVED_PURCHASE" -> OnUserApprovedPurchase(trip_intent, status, wm, event)
      [] event.type = "TOOL_ERROR" -> OnToolError(trip_intent, status, wm, event, now)
      [] OTHER -> [status |-> status, wm |-> wm, tool_calls |-> <<>>, ui_messages |-> <<>>]

_build_flight_quote_args(trip_intent, segment_index) ==
    LET segs == trip_intent[2]["itinerary"][2]["segments"][2]
    IN  IF segment_index >= Len(segs) THEN EmptyDict
        ELSE LET seg == Or(segs[segment_index + 1], EmptyDict)
                 prefs == Or(Get(Or(Get(trip_intent, "preferences", EmptyDict), EmptyDict),
                                 "flight", EmptyDict), EmptyDict)
             IN  D([origin         |-> GetN(Or(GetN(seg, "origin"), EmptyDict), "code"),
                    destination    |-> GetN(Or(GetN(seg, "destination"), EmptyDict), "code"),
                    departure_date |-> GetN(seg, "depart_date"),
                    trip_type      |-> S("one_way"),
                    travelers      |-> trip_intent[2]["party"][2]["travelers"],
                    cabin          |-> Get(prefs, "cabin", S("economy")),
                    segment_index  |-> I(segment_index)])

_build_hotel_quote_args(trip_intent, stay_index, stay) ==
    LET lodging == Or(GetN(Or(GetN(trip_intent, "itinerary"), EmptyDict), "lodging"), EmptyDict)
        dest == Or(Or(GetN(stay, "location_code"), GetN(stay, "destination")),
                   IF ~Truthy(GetN(lodging, "stays")) THEN GetN(lodging, "location_hint") ELSE None)
    IN  D([stay_index  |-> I(stay_index),
           destination |-> dest,
           dates       |-> D([start_date |-> GetN(stay, "check_in"),
                              end_date   |-> GetN(stay, "check_out")])])

\* One list of options per room: a stay that is a list of options is one
\* room, a stay that is a list of option lists is one room per list.
_flatten_hotel_rooms(by_stay) ==
    LET Rooms(stay) == IF ~Truthy(stay) THEN <<>>
                       ELSE IF IsDict(stay[2][1]) THEN <<stay>>
                       ELSE stay[2]
    IN  Flatten([j \in 1..Len(by_stay) |-> Rooms(by_stay[j])])

\* The quotes the quoting loop looks at for one flight segment (0-based)
SegQuotes(wm, seg_idx) ==
    LET by_seg == Or(GetN(wm, "flight_quotes_by_segment"), EmptyList)[2]
        flat == Or(GetN(wm, "flight_quotes"), EmptyList)
    IN  IF by_seg # <<>>
        THEN (IF seg_idx < Len(by_seg) THEN by_seg[seg_idx + 1] ELSE None)
        ELSE (IF seg_idx = 0 THEN flat ELSE None)

\* The quotes the quoting loop looks at for one stay (0-based)
StayQuotes(wm, j) ==
    LET by_stay == Or(GetN(wm, "hotel_quotes_by_stay"), EmptyList)[2]
        flat == Or(GetN(wm, "hotel_quotes"), EmptyList)
    IN  IF by_stay # <<>>
        THEN (IF j < Len(by_stay) THEN by_stay[j + 1] ELSE None)
        ELSE (IF j = 0 THEN flat ELSE None)

MinOf(a, b) == IF a <= b THEN a ELSE b

has_all_flight_quotes(trip_intent, wm) ==
    LET idx == _get_flight_segment_indices(trip_intent)
        by_seg == Or(GetN(wm, "flight_quotes_by_segment"), EmptyList)[2]
        flat == Or(GetN(wm, "flight_quotes"), EmptyList)
    IN  IF idx = <<>> THEN TRUE
        ELSE \/ /\ by_seg # <<>>
                /\ Len(by_seg) >= Len(idx)
                /\ \A i \in 1..MinOf(Len(idx), Len(by_seg)) : Truthy(by_seg[i])
             \/ /\ Truthy(flat)
                /\ Len(idx) = 1

has_all_hotel_quotes(trip_intent, wm) ==
    LET lodging_needed == Truthy(LodgingNeededRaw(trip_intent))
        stays == _get_effective_stays(trip_intent)
        by_stay == Or(GetN(wm, "hotel_quotes_by_stay"), EmptyList)[2]
        flat == Or(GetN(wm, "hotel_quotes"), EmptyList)
    IN  \/ ~lodging_needed
        \/ /\ by_stay # <<>>
           /\ Len(by_stay) >= Len(stays)
           /\ \A j \in 1..Len(stays) : Truthy(by_stay[j])
        \/ /\ Truthy(flat)
           /\ (stays = <<>> \/ Len(stays) = 1)

\* The arguments of noma/trip_option_ranker that hold the quoted options
RankerArgs(trip_intent, wm) ==
    LET by_seg == Or(GetN(wm, "flight_quotes_by_segment"), EmptyList)[2]
        by_stay == Or(GetN(wm, "hotel_quotes_by_stay"), EmptyList)[2]
        flight_flat == Or(GetN(wm, "flight_quotes"), EmptyList)
        hotel_flat == Or(GetN(wm, "hotel_quotes"), EmptyList)
        use_multi == \/ Len(_get_flight_segment_indices(trip_intent)) > 1
                     \/ Len(_get_effective_stays(trip_intent)) > 1
                     \/ by_seg # <<>> \/ by_stay # <<>>
    IN  IF use_multi /\ (by_seg # <<>> \/ by_stay # <<>>)
        THEN D([flight_options_by_segment |-> IF by_seg # <<>> THEN L(by_seg) ELSE L(<<flight_flat>>),
                hotel_options_by_stay |-> IF _flatten_hotel_rooms(by_stay) # <<>>
                                          THEN L(_flatten_hotel_rooms(by_stay))
                                          ELSE L(<<hotel_flat>>)])
        ELSE D([flight_options |-> flight_flat, hotel_options |-> hotel_flat])

\* The steps of Reducer.run after the confirmation gate act on
\* q = [status, tool_calls, ui_messages].

\* status["phase"], status["state"] = phase, state on q
QSetPhaseState(q, phase, state) ==
    [q EXCEPT !.status = SetPhaseState(@, phase, state)]

\* if args: tool_calls.append(ToolCall(name="noma/flight_quote_search", ...))
WithFlightCall(q, args) ==
    IF Truthy(args)
    THEN [q EXCEPT !.tool_calls = Append(@, ToolCall("noma/flight_quote_search", args))]
    ELSE q

\* The body of "if not seg_quotes:" for the first segment fi (1-based in idx)
\* that lacks quotes; nothing when fi = 0
QuoteFlightAt(trip_intent, q, idx, fi) ==
    IF fi = 0 THEN q
    ELSE WithFlightCall(QSetPhaseState(q, "quote", "quoting_flights"),
                        _build_flight_quote_args(trip_intent, idx[fi]))

\* The mutant quotes the last segment that lacks quotes.
QuoteFlightsMutant(trip_intent, wm, q, idx) ==
    LET r == FirstIndex([i \in 1..Len(idx) |-> ~Truthy(SegQuotes(wm, idx[Len(idx) + 1 - i]))])
    IN  QuoteFlightAt(trip_intent, q, idx, IF r = 0 THEN 0 ELSE Len(idx) + 1 - r)

\* for seg_idx in flight_segment_indices: ... break
QuoteFlights(trip_intent, wm, q, idx) ==
    QuoteFlightAt(trip_intent, q, idx,
                  FirstIndex([i \in 1..Len(idx) |-> ~Truthy(SegQuotes(wm, idx[i]))]))

QuoteHotelAt(trip_intent, q, stays, hj) ==
    IF hj = 0 THEN q
    ELSE [status |-> SetPhaseState(q.status, "quote", "quoting_hotels"),
          tool_calls |-> Append(q.tool_calls,
                                ToolCall("noma/hotel_quote_search",
                                         _build_hotel_quote_args(trip_intent, hj - 1, stays[hj]))),
          ui_messages |-> q.ui_messages]

\* The mutant quotes hotels whether or not a tool call is already queued.
QuoteHotelsMutant(trip_intent, wm, q, stays) ==
    IF Truthy(LodgingNeededRaw(trip_intent)) /\ stays # <<>>
    THEN QuoteHotelAt(trip_intent, q, stays,
                      FirstIndex([j \in 1..Len(stays) |-> ~Truthy(StayQuotes(wm, j - 1))]))
    ELSE q

\* if lodging_needed and effective_stays and not tool_calls: for j, stay ...
QuoteHotels(trip_intent, wm, q, stays) ==
    IF Truthy(LodgingNeededRaw(trip_intent)) /\ stays # <<>> /\ q.tool_calls = <<>>
    THEN QuoteHotelAt(trip_intent, q, stays,
                      FirstIndex([j \in 1..Len(stays) |-> ~Truthy(StayQuotes(wm, j - 1))]))
    ELSE q

\* if has_all_flight_quotes and has_all_hotel_quotes and not ranked_bundles
RankBundles(trip_intent, wm, q) ==
    IF /\ has_all_flight_quotes(trip_intent, wm)
       /\ has_all_hotel_quotes(trip_intent, wm)
       /\ ~Truthy(Or(GetN(wm, "ranked_bundles"), EmptyList))
    THEN [status |-> SetPhaseState(q.status, "quote", "ranking_bundles"),
          tool_calls |-> Append(q.tool_calls,
                                ToolCall("noma/trip_option_ranker", RankerArgs(trip_intent, wm))),
          ui_messages |-> q.ui_messages]
    ELSE q

\* "Present bundles"
PresentBundles(wm, q) ==
    IF /\ Truthy(Or(GetN(wm, "ranked_bundles"), EmptyList))
       /\ GetN(q.status, "state") \in {S("presenting_options"), S("ranking_bundles"),
                                       S("have_flight_quotes"), S("have_hotel_quotes")}
    THEN [status |-> Put(q.status, "state", S("presenting_options")),
          tool_calls |-> q.tool_calls,
          ui_messages |-> Append(q.ui_messages, "Here are the top options:")]
    ELSE q

\* The lines "- ..." for a list of strings
Bullets(l) == [i \in 1..Len(l[2]) |-> "- " \o l[2][i][2]]

\* "Risk report messaging", for the risk report rr
RiskMessages(rr) ==
    IF ~Truthy(rr) THEN <<>>
    ELSE IF Truthy(GetN(rr, "blocking_issues"))
    THEN <<"Selected bundle has blocking issues:">> \o Bullets(rr[2]["blocking_issues"])
    ELSE (IF Truthy(GetN(rr, "risks"))
          THEN <<"Risks to note:">> \o Bullets(rr[2]["risks"]) ELSE <<>>)
         \o <<"Say 'hold' to place holds, or pick a different bundle_id.">>

RiskMessaging(wm, q) ==
    [q EXCEPT !.ui_messages = @ \o RiskMessages(GetN(wm, "risk_report"))]

\* Reducer.run after the confirmation gate: the quoting loops, the ranking
\* gate, "Present bundles" and the risk report messaging.
QuoteRankPresent(trip_intent, wm, q) ==
    RiskMessaging(wm,
        PresentBundles(wm,
            RankBundles(trip_intent, wm,
                QuoteHotels(trip_intent, wm,
                    QuoteFlights(trip_intent, wm, q, _get_flight_segment_indices(trip_intent)),
                    _get_effective_stays(trip_intent)))))

SummaryFirstMessage ==
    "I have everything I need. Here's your trip summary. If this looks correct, reply Yes or Looks good to search for flights and hotels. If something needs to change, tell us what to update."

SummaryAgainMessage ==
    "I have everything I need. Here's your trip summary. Reply Yes or Looks good when you're ready to search, or tell us what to change."

DefaultStatus ==
    D([phase |-> S("intake"), state |-> S("collecting_requirements"),
       missing_required |-> EmptyList])

\* The list of strings as a Python list of str
StrList(seq) == L([i \in 1..Len(seq) |-> S(seq[i])])

\* The output of Reducer.run: [trip_intent, tool_calls, ui_messages]
ReducerOutput(trip_intent, wm, q) ==
    [trip_intent |-> Put(Put(trip_intent, "status", q.status), "working_memory", wm),
     tool_calls |-> q.tool_calls, ui_messages |-> q.ui_messages]

\* (trip_intent.get("request") or {}).get("user_message", "")
RequestMessage(trip_intent) ==
    Get(Or(GetN(trip_intent, "request"), EmptyDict), "user_message", S(""))

\* The mutant asks the follow-up questions after the calls the event queued.
MissingBranchMutant(trip_intent, wm, q, event, missing) ==
    ReducerOutput(trip_intent, wm,
        [status |-> SetPhaseState(q.status, "intake", "collecting_requirements"),
         tool_calls |-> IF event.type = "USER_MESSAGE" THEN q.tool_calls
                        ELSE Append(q.tool_calls,
                                    ToolCall("generate_followup_questions",
                                             D([missing |-> StrList(missing),
                                                user_message |-> RequestMessage(trip_intent)]))),
         ui_messages |-> q.ui_messages])

\* The branch "if missing:"
MissingBranch(trip_intent, wm, q, event, missing) ==
    ReducerOutput(trip_intent, wm,
        [status |-> SetPhaseState(q.status, "intake", "collecting_requirements"),
         tool_calls |-> IF event.type = "USER_MESSAGE" THEN q.tool_calls
                        ELSE << ToolCall("generate_followup_questions",
                                         D([missing |-> StrList(missing),
                                            user_message |-> RequestMessage(trip_intent)])) >>,
         ui_messages |-> q.ui_messages])

\* The confirmation gate, for a TOOL_RESULT of trip_requirements_extract
ConfirmationGate(trip_intent, wm, q, user_message) ==
    IF Get(q.status, "state", S("")) # S("awaiting_confirmation")
    THEN ReducerOutput(trip_intent, wm,
             [status |-> SetPhaseState(q.status, "intake", "awaiting_confirmation"),
              tool_calls |-> <<>>,
              ui_messages |-> Append(q.ui_messages, SummaryFirstMessage)])
    ELSE IF ~_is_confirmation(user_message[2])
    THEN ReducerOutput(trip_intent, wm,
             [status |-> q.status, tool_calls |-> <<>>,
              ui_messages |-> Append(q.ui_messages, SummaryAgainMessage)])
    ELSE ReducerOutput(trip_intent, wm,
             QuoteRankPresent(trip_intent, wm,
                 [status |-> Put(q.status, "state", S("ready_to_quote")),
                  tool_calls |-> q.tool_calls,
                  ui_messages |-> Append(q.ui_messages, "Searching for flights and hotels...")]))

\* The mutant goes on to the quoting loops on a USER_MESSAGE event.
FollowupsMutant(trip_intent, wm, q, event, missing) ==
    IF missing # <<>> THEN MissingBranch(trip_intent, wm, q, event, missing)
    ELSE IF /\ event.type = "TOOL_RESULT"
            /\ Get(Or(event.data, EmptyDict), "tool_name", S("")) = S("trip_requirements_extract")
    THEN ConfirmationGate(trip_intent, wm, q,
                          Or(GetN(Or(event.data, EmptyDict), "user_message"),
                             RequestMessage(trip_intent)))
    ELSE ReducerOutput(trip_intent, wm, QuoteRankPresent(trip_intent, wm, q))

\* Reducer.run from "2) state-driven followups" on, with status["missing_required"]
\* already set in q.status
Followups(trip_intent, wm, q, event, missing) ==
    IF missing # <<>> THEN MissingBranch(trip_intent, wm, q, event, missing)
    ELSE IF event.type = "USER_MESSAGE" THEN ReducerOutput(trip_intent, wm, q)
    ELSE IF /\ event.type = "TOOL_RESULT"
            /\ Get(Or(event.data, EmptyDict), "tool_name", S("")) = S("trip_requirements_extract")
    THEN ConfirmationGate(trip_intent, wm, q,
                          Or(GetN(Or(event.data, EmptyDict), "user_message"),
                             RequestMessage(trip_intent)))
    ELSE ReducerOutput(trip_intent, wm, QuoteRankPresent(trip_intent, wm, q))

\* The mutant trusts the list the status already holds.
WithMissingMutant(r, missing) ==
    [status |-> r.status, tool_calls |-> r.tool_calls, ui_messages |-> r.ui_messages]

\* missing = self._required_fields_missing_for_quotes(trip_intent);
\* status["missing_required"] = missing
WithMissing(r, missing) ==
    [status |-> Put(r.status, "missing_required", StrList(missing)),
     tool_calls |-> r.tool_calls, ui_messages |-> r.ui_messages]

\* Reducer.run after the event-driven actions, whose outcome is r
StateDriven(trip_intent, r, event) ==
    Followups(trip_intent, r.wm,
              WithMissing(r, _required_fields_missing_for_quotes(trip_intent)),
              event, _required_fields_missing_for_quotes(trip_intent))

\* Reducer.run once the event-driven actions have left r
AfterEvent(trip_intent, r, event) ==
    IF event.type = "TOOL_ERROR"
    THEN ReducerOutput(trip_intent, r.wm, r)
    ELSE StateDriven(Put(Put(trip_intent, "status", r.status), "working_memory", r.wm),
                     r, event)

\* status = trip_intent.setdefault("status", {...}); wm = trip_intent.setdefault(
\* "working_memory", {}); self._ensure_working_memory_defaults(wm)
WithDefaults(trip_intent) ==
    Put(Put(trip_intent, "status", Get(trip_intent, "status", DefaultStatus)),
        "working_memory",
        _ensure_working_memory_defaults(Get(trip_intent, "working_memory", EmptyDict)))

Decide(trip_intent, event, now) ==
    AfterEvent(trip_intent,
               EventActions(trip_intent, trip_intent[2]["status"],
                            trip_intent[2]["working_memory"], event, now),
               event)

\* Reducer.run(payload): [trip_intent, tool_calls, ui_messages]. now is the
\* value of int(time.time()) read by the TOOL_ERROR branch.
ReducerRun(trip_intent, event, now) == Decide(WithDefaults(trip_intent), event, now)


---------------------------------------------------------------------------
\* Applier (handlers/applier.py)

\* tool_name.split("/", 1)[-1] if "/" in tool_name else tool_name
_tool_id_from_name(tool_name) ==
    IF Contains(tool_name, "/")
    THEN LET i == CHOOSE k \in 1..Len(tool_name) :
                      /\ SubSeq(tool_name, k, k) = "/"
                      /\ \A m \in 1..(k - 1) : SubSeq(tool_name, m, m) # "/"
         IN  SubSeq(tool_name, i + 1, Len(tool_name))
    ELSE tool_name

\* The calendar of the model: ISO dates in order, so that the string
\* comparison of two dates is the comparison of their positions.
Calendar ==
    <<"2026-06-01", "2026-06-02", "2026-06-03", "2026-06-04",
      "2026-06-05", "2026-06-06", "2026-06-07">>

DateIndex(d) == CHOOSE i \in 1..Len(Calendar) : Calendar[i] = d

\* a <= b on two ISO date strings
DateLE(a, b) == DateIndex(a[2]) <= DateIndex(b[2])

\* _add_days(date_str, days)
_add_days(date_str, days) == S(Calendar[DateIndex(date_str[2]) + days])

\* str(index) inside the synthesized option id
IndexStr(x) == IF x[1] = "i" THEN ToString(x[2]) ELSE PyStr(x)

_ensure_option_ids(options, prefix, index) ==
    LET Fix(i) ==
            LET opt == options[2][i]
            IN  IF ~IsDict(opt) THEN opt
                ELSE IF Truthy(Or(GetN(opt, "option_id"), GetN(opt, "id"))) THEN opt
                ELSE LET oid == S(prefix \o IndexStr(index) \o "_" \o ToString(i - 1))
                         o1 == Put(opt, "option_id", oid)
                     IN  IF ~Has(o1, "id") /\ StartsWith(prefix, "htl")
                         THEN Put(o1, "id", oid) ELSE o1
    IN  IF ~Truthy(options) THEN options
        ELSE L([i \in 1..Len(options[2]) |-> Fix(i)])

\* The mutant starts from an empty list: what was stored is lost.
PadAndSetMutant(lst, idx, x) ==
    [i \in 1..(idx + 1) |-> IF i = idx + 1 THEN x ELSE None]

\* while len(lst) <= idx: lst.append(None); lst[idx] = x
PadAndSet(lst, idx, x) ==
    LET n == IF Len(lst) <= idx THEN idx + 1 ELSE Len(lst)
    IN  [i \in 1..n |-> IF i = idx + 1 THEN x
                        ELSE IF i <= Len(lst) THEN lst[i] ELSE None]

FoldFlightQuotes(wm, result, arguments) ==
    LET options == _ensure_option_ids(Get(result, "options", EmptyList), "flt_seg",
                                      Get(arguments, "segment_index", I(0)))
        seg_idx == GetN(arguments, "segment_index")
    IN  IF seg_idx # None
        THEN LET by_seg == PadAndSet(Get(wm, "flight_quotes_by_segment", EmptyList)[2],
                                     seg_idx[2], options)
                 w1 == Put(wm, "flight_quotes_by_segment", L(by_seg))
             IN  IF Len(by_seg) = 1 /\ Truthy(by_seg[1])
                 THEN Put(w1, "flight_quotes", by_seg[1]) ELSE w1
        ELSE Put(wm, "flight_quotes", options)

\* [o for room_list in rooms for o in (room_list or [])]
FlatRooms(rooms) ==
    L(Flatten([i \in 1..Len(rooms[2]) |-> Or(rooms[2][i], EmptyList)[2]]))

FoldHotelQuotes(wm, result, arguments) ==
    LET options_by_room == GetN(result, "options_by_room")
        stay_idx == GetN(arguments, "stay_index")
        per_stay == IF options_by_room # None /\ IsList(options_by_room)
                    THEN options_by_room
                    ELSE L(<< _ensure_option_ids(Get(result, "options", EmptyList), "htl_stay",
                                                 IF stay_idx # None THEN stay_idx ELSE I(0)) >>)
    IN  IF stay_idx # None
        THEN LET by_stay == PadAndSet(Get(wm, "hotel_quotes_by_stay", EmptyList)[2],
                                      stay_idx[2], per_stay)
                 w1 == Put(wm, "hotel_quotes_by_stay", L(by_stay))
             IN  IF Len(by_stay) = 1 /\ Truthy(by_stay[1])
                 THEN Put(w1, "hotel_quotes", FlatRooms(by_stay[1])) ELSE w1
        ELSE Put(wm, "hotel_quotes", FlatRooms(per_stay))

\* The table common/output_convention.json is not among the sources. Its
\* status_updates are taken from the state table of the specification: the
\* folded result of the purchase operation enters (book, completed).
StatusUpdates(tool_id) ==
    IF tool_id = "booking_confirm_and_purchase"
    THEN D([phase |-> S("book"), state |-> S("completed")])
    ELSE EmptyDict

\* conventions["policy_and_risk_check"]["_merge_into"]: the risk report is
\* written to working_memory.risk_report; no key of selected is merged in.
RiskMergeKeys == <<>>

FoldRiskReport(wm, result) ==
    LET sel == Or(Get(wm, "selected", EmptyDict), EmptyDict)
        keys == {RiskMergeKeys[i] : i \in 1..Len(RiskMergeKeys)}
        merged == D([k \in DOMAIN result[2] \cup {kk \in keys : GetN(sel, kk) # None} |->
                       IF k \in keys /\ GetN(sel, k) # None THEN sel[2][k] ELSE result[2][k]])
    IN  Put(wm, "risk_report", merged)

\* The working memory after the fold of one tool result
FoldResult(tool_id, wm, result, arguments) ==
    CASE tool_id = "policy_and_risk_check" -> FoldRiskReport(wm, result)
      [] tool_id = "booking_confirm_and_purchase" ->
             IF GetN(result, "confirmation") # None
             THEN Put(wm, "bookings",
                      ListAppend(Get(wm, "bookings", EmptyList), result[2]["confirmation"]))
             ELSE wm
      [] tool_id = "flight_quote_search" -> FoldFlightQuotes(wm, result, arguments)
      [] tool_id = "hotel_quote_search" -> FoldHotelQuotes(wm, result, arguments)
      [] tool_id = "trip_option_ranker" ->
             Put(wm, "ranked_bundles", Get(result, "bundles", EmptyList))
      [] tool_id = "reservation_hold_create" ->
             Put(wm, "holds", Get(result, "holds", EmptyList))
      [] OTHER -> wm

\* if status_update: status["phase"] = ...; status["state"] = ...
ApplyStatusUpdate(status, status_update) ==
    IF Truthy(status_update)
    THEN Put(Put(status, "phase", Get(status_update, "phase", GetN(status, "phase"))),
             "state", Get(status_update, "state", GetN(status, "state")))
    ELSE status

FoldInto(trip_intent, tool_id, result, arguments) ==
    [trip_intent |->
        Put(Put(trip_intent, "status",
                ApplyStatusUpdate(Get(trip_intent, "status", EmptyDict), StatusUpdates(tool_id))),
            "working_memory",
            FoldResult(tool_id,
                       _ensure_working_memory_defaults(
                           Get(trip_intent, "working_memory", EmptyDict)),
                       result, arguments))]

\* Applier.run for a tool other than trip_requirements_extract: [trip_intent]
ApplierFold(trip_intent, tool_name, result, arguments) ==
    FoldInto(trip_intent, _tool_id_from_name(tool_name), result, arguments)

\* patch.setdefault(k1, {}).setdefault(k2, {})...[kn] = x
RECURSIVE PutPath(_, _, _)
PutPath(d, path, x) ==
    IF Len(path) = 1 THEN Put(d, path[1], x)
    ELSE Put(d, Head(path), PutPath(Get(d, Head(path), EmptyDict), Tail(path), x))

\* o if isinstance(o, str) else (o.get("code") if isinstance(o, dict) else None)
CodeOf(o) == IF o[1] = "s" THEN o ELSE IF IsDict(o) THEN GetN(o, "code") ELSE None

Airport(code) == D([type |-> S("airport"), code |-> code])

NoTimeWindow == D([start |-> None, end |-> None])

\* One existing segment overlaid with the extracted segment es (i 0-based);
\* <<>> when origin, destination or depart date is still unknown.
OverlaySegment(existing, es, i) ==
    LET o == Or(Or(GetN(es, "origin"), GetN(es, "origin_code")),
                GetN(Or(GetN(existing, "origin"), EmptyDict), "code"))
        d == Or(Or(GetN(es, "destination"), GetN(es, "destination_code")),
                GetN(Or(GetN(existing, "destination"), EmptyDict), "code"))
        o_code == CodeOf(o)
        d_code == CodeOf(d)
        depart_date == Or(GetN(es, "depart_date"), GetN(existing, "depart_date"))
    IN  IF Truthy(o_code) /\ Truthy(d_code) /\ Truthy(depart_date)
        THEN << D([segment_id |-> Or(Or(GetN(existing, "segment_id"), GetN(es, "segment_id")),
                                     S("seg_" \o ToString(i))),
                   origin |-> IF o_code[1] = "s" THEN Airport(o_code)
                              ELSE Or(GetN(existing, "origin"), Airport(o_code)),
                   destination |-> IF d_code[1] = "s" THEN Airport(d_code)
                                   ELSE Or(GetN(existing, "destination"), Airport(d_code)),
                   depart_date |-> depart_date,
                   transport_mode |-> Or(GetN(es, "transport_mode"),
                                         Get(existing, "transport_mode", S("flight"))),
                   depart_time_window |-> Or(Or(GetN(es, "depart_time_window"),
                                                GetN(existing, "depart_time_window")),
                                             NoTimeWindow)]) >>
        ELSE <<>>

\* One extracted segment with no existing counterpart; n is the number that
\* names it when it has no segment_id.
NewSegment(es, n) ==
    LET o == Or(GetN(es, "origin"), GetN(es, "origin_code"))
        d == Or(GetN(es, "destination"), GetN(es, "destination_code"))
        o_code == CodeOf(o)
        d_code == CodeOf(d)
    IN  IF Truthy(o_code) /\ Truthy(d_code) /\ Truthy(GetN(es, "depart_date"))
        THEN << D([segment_id |-> Or(GetN(es, "segment_id"), S("seg_" \o ToString(n))),
                   origin |-> IF o_code[1] = "s" THEN Airport(o_code) ELSE Or(o, Airport(o_code)),
                   destination |-> IF d_code[1] = "s" THEN Airport(d_code) ELSE Or(d, Airport(d_code)),
                   depart_date |-> es[2]["depart_date"],
                   transport_mode |-> Get(es, "transport_mode", S("flight")),
                   depart_time_window |-> Or(GetN(es, "depart_time_window"), NoTimeWindow)]) >>
        ELSE <<>>

\* for es in extracted_segs[len(existing_segs):]: ... f"seg_{len(segs)}"
RECURSIVE AppendSurplus(_, _)
AppendSurplus(segs, surplus) ==
    IF surplus = <<>> THEN segs
    ELSE AppendSurplus(segs \o NewSegment(Head(surplus), Len(segs)), Tail(surplus))

OutboundSegment(origin, destination, depart_date) ==
    D([segment_id |-> S("seg_outbound"), origin |-> origin, destination |-> destination,
       depart_date |-> depart_date, transport_mode |-> S("flight"),
       depart_time_window |-> NoTimeWindow])

\* The segments built from the extraction, before the inferred return segment
ExtractedSegments(trip_intent, extracted) ==
    LET origin == GetN(extracted, "origin")
        dest == GetN(extracted, "destination")
        dates == Or(Get(extracted, "dates", EmptyDict), EmptyDict)
        extracted_segs == Or(GetN(extracted, "segments"), EmptyList)[2]
        existing_segs == Or(GetN(Or(Get(trip_intent, "itinerary", EmptyDict), EmptyDict),
                                 "segments"), EmptyList)[2]
        Es(i) == IF i <= Len(extracted_segs) THEN extracted_segs[i] ELSE EmptyDict
    IN  IF extracted_segs # <<>>
        THEN IF existing_segs # <<>>
             THEN AppendSurplus(
                      Flatten([i \in 1..Len(existing_segs) |->
                                  OverlaySegment(existing_segs[i], Es(i), i - 1)]),
                      IF Len(extracted_segs) > Len(existing_segs)
                      THEN SubSeq(extracted_segs, Len(existing_segs) + 1, Len(extracted_segs))
                      ELSE <<>>)
             ELSE Flatten([i \in 1..Len(extracted_segs) |-> NewSegment(extracted_segs[i], i - 1)])
        ELSE IF Truthy(origin) /\ Truthy(dest)
        THEN << OutboundSegment(Airport(origin), Airport(dest), GetN(dates, "departure_date")) >>
             \o (IF GetN(extracted, "trip_type") = S("round_trip") /\ Truthy(GetN(dates, "return_date"))
                 THEN << D([segment_id |-> S("seg_return"), origin |-> Airport(dest),
                            destination |-> Airport(origin),
                            depart_date |-> GetN(dates, "return_date"),
                            transport_mode |-> S("flight"),
                            depart_time_window |-> NoTimeWindow]) >>
                 ELSE <<>>)
        ELSE IF Truthy(dest)
        THEN << OutboundSegment(EmptyDict, Airport(dest), GetN(dates, "departure_date")) >>
        ELSE IF Truthy(origin)
        THEN << OutboundSegment(Airport(origin), EmptyDict, GetN(dates, "departure_date")) >>
        ELSE <<>>

\* The mutant infers no return segment.
WithReturnSegmentMutant(segs, extracted) == segs

\* "if segs:" ... the inferred return segment
WithReturnSegment(segs, extracted) ==
    IF segs = <<>> THEN segs
    ELSE
    LET lod == Or(Get(extracted, "lodging", EmptyDict), EmptyDict)
        dates == Or(Get(extracted, "dates", EmptyDict), EmptyDict)
        first_origin_code == IF IsDict(GetN(segs[1], "origin"))
                             THEN GetN(Or(GetN(segs[1], "origin"), EmptyDict), "code") ELSE None
        last_dest_code == IF IsDict(GetN(segs[Len(segs)], "destination"))
                          THEN GetN(Or(GetN(segs[Len(segs)], "destination"), EmptyDict), "code")
                          ELSE None
        return_stays == Or(Or(GetN(extracted, "stays"), GetN(lod, "stays")), EmptyList)[2]
        return_depart_date ==
            IF ~Truthy(GetN(dates, "return_date")) /\ return_stays # <<>>
            THEN GetN(Or(return_stays[Len(return_stays)], EmptyDict), "check_out")
            ELSE GetN(dates, "return_date")
    IN  IF Truthy(first_origin_code) /\ Truthy(last_dest_code)
           /\ first_origin_code # last_dest_code
        THEN Append(segs, D([segment_id |-> S("seg_return"),
                             origin |-> Airport(last_dest_code),
                             destination |-> Airport(first_origin_code),
                             depart_date |-> return_depart_date,
                             transport_mode |-> S("flight"),
                             depart_time_window |-> NoTimeWindow]))
        ELSE segs

\* A stay built from an extracted stay alone
NewStay(s) ==
    D([location_code |-> Or(GetN(s, "location_code"), GetN(s, "destination")),
       check_in |-> GetN(s, "check_in"),
       check_out |-> GetN(s, "check_out"),
       location_hint |-> GetN(s, "location_hint")])

\* One existing stay overlaid with the extracted stay s
OverlayStay(existing, s) ==
    LET check_in == Or(GetN(s, "check_in"), GetN(existing, "check_in"))
        check_out0 == Or(GetN(s, "check_out"), GetN(existing, "check_out"))
        check_out == IF /\ Truthy(check_in) /\ Truthy(check_out0)
                        /\ DateLE(check_out0, check_in)
                        /\ Truthy(GetN(existing, "check_out"))
                        /\ ~DateLE(GetN(existing, "check_out"), check_in)
                     THEN existing[2]["check_out"] ELSE check_out0
    IN  D([location_code |-> Or(Or(Or(GetN(s, "location_code"), GetN(s, "destination")),
                                   GetN(existing, "location_code")), GetN(existing, "destination")),
           check_in |-> check_in,
           check_out |-> check_out,
           location_hint |-> Or(GetN(s, "location_hint"), GetN(existing, "location_hint"))])

\* if c: d[k] = x
PutIf(c, d, k, x) == IF c THEN Put(d, k, x) ELSE d

\* existing_stays, with the stay made of lodging.check_in / check_out when
\* the document has no stays
ExistingStays(existing_lodging, existing_segs) ==
    IF /\ ~Truthy(GetN(existing_lodging, "stays"))
       /\ (Truthy(GetN(existing_lodging, "check_in")) \/ Truthy(GetN(existing_lodging, "check_out")))
    THEN << D([location_code |->
                   IF existing_segs # <<>>
                   THEN GetN(Or(GetN(existing_segs[1], "destination"), EmptyDict), "code")
                   ELSE None,
               check_in |-> GetN(existing_lodging, "check_in"),
               check_out |-> GetN(existing_lodging, "check_out")]) >>
    ELSE Or(GetN(existing_lodging, "stays"), EmptyList)[2]

\* applied_stays: every existing stay overlaid, then the surplus of the extraction
AppliedStays(existing_stays, extracted_stays) ==
    [j \in 1..Len(existing_stays) |->
        OverlayStay(existing_stays[j],
                    IF j <= Len(extracted_stays) THEN extracted_stays[j] ELSE EmptyDict)]
    \o (IF Len(extracted_stays) > Len(existing_stays)
        THEN [j \in 1..(Len(extracted_stays) - Len(existing_stays)) |->
                 NewStay(extracted_stays[Len(existing_stays) + j])]
        ELSE <<>>)

\* patch["itinerary"]["lodging"]["stays"] when the extraction has stays
StaysPatch(p, existing_stays, extracted_stays) ==
    IF existing_stays # <<>>
    THEN Put(p, "stays", L(AppliedStays(existing_stays, extracted_stays)))
    ELSE Put(p, "stays", L([j \in 1..Len(extracted_stays) |-> NewStay(extracted_stays[j])]))

\* check_in / check_out of the patch when the extraction has no stays
DatesPatch(p, dates, lod) ==
    PutIf(Truthy(GetN(lod, "check_out")),
          PutIf(Truthy(GetN(lod, "check_in")),
                PutIf(Truthy(GetN(dates, "return_date")),
                      PutIf(Truthy(GetN(dates, "departure_date")),
                            p, "check_in", GetN(dates, "departure_date")),
                      "check_out", GetN(dates, "return_date")),
                "check_in", GetN(lod, "check_in")),
          "check_out", GetN(lod, "check_out"))

LodgingStays(p, trip_intent, dates, lod, extracted_stays) ==
    IF extracted_stays # <<>>
    THEN StaysPatch(p,
             ExistingStays(Or(GetN(Or(GetN(trip_intent, "itinerary"), EmptyDict), "lodging"),
                              EmptyDict),
                           Or(GetN(Or(Get(trip_intent, "itinerary", EmptyDict), EmptyDict),
                                   "segments"), EmptyList)[2]),
             extracted_stays)
    ELSE DatesPatch(p, dates, lod)

\* The lodging part of the patch: patch["itinerary"]["lodging"]
LodgingPatchOf(trip_intent, extracted, lod) ==
    PutIf(Has(lod, "location_hint"),
          LodgingStays(PutIf(Has(lod, "needed"), EmptyDict, "needed", GetN(lod, "needed")),
                       trip_intent,
                       Or(Get(extracted, "dates", EmptyDict), EmptyDict),
                       lod,
                       Or(Or(GetN(extracted, "stays"), GetN(lod, "stays")), EmptyList)[2]),
          "location_hint", GetN(lod, "location_hint"))

LodgingPatch(trip_intent, extracted) ==
    LodgingPatchOf(trip_intent, extracted, Or(Get(extracted, "lodging", EmptyDict), EmptyDict))

\* The preferences.flight part of the patch; empty when nothing is set
FlightPrefsPatch(extracted) ==
    LET constraints == Or(Get(extracted, "constraints", EmptyDict), EmptyDict)
        keys == (IF Truthy(GetN(extracted, "cabin")) THEN {"cabin"} ELSE {})
                \cup ({"max_stops", "avoid_red_eye", "preferred_airlines"} \cap DOMAIN constraints[2])
    IN  D([k \in keys |-> IF k = "cabin" THEN extracted[2]["cabin"] ELSE constraints[2][k]])

\* if c: patch.setdefault(k1, {})...[kn] = x
PutPathIf(c, d, path, x) == IF c THEN PutPath(d, path, x) ELSE d

\* merged = {**existing, **{k: v for k, v in travelers.items() if v is not None}}
MergedTravelers(existing, travelers) ==
    D([k \in DOMAIN existing[2] \cup {kk \in DOMAIN travelers[2] : travelers[2][kk] # None} |->
          IF k \in DOMAIN travelers[2] /\ travelers[2][k] # None
          THEN travelers[2][k] ELSE existing[2][k]])

TravelersPatch(p, trip_intent, travelers) ==
    IF IsDict(travelers) /\ Truthy(travelers)
    THEN PutPath(p, <<"party", "travelers">>,
                 MergedTravelers(Or(GetN(Or(Get(trip_intent, "party", EmptyDict), EmptyDict),
                                         "travelers"), EmptyDict),
                                 travelers))
    ELSE p

\* if segs: patch.setdefault("itinerary", {})["segments"] = segs
SegmentsPatch(p, segs) ==
    PutPathIf(segs # <<>>, p, <<"itinerary", "segments">>, L(segs))

PrefsPatch(p, prefs) ==
    PutPathIf(prefs # EmptyDict, p, <<"preferences", "flight">>, prefs)

\* The patch built from the extracted trip intent
PatchOf(trip_intent, extracted, missing) ==
    PrefsPatch(
        PutPath(
            SegmentsPatch(
                PutPathIf(Truthy(GetN(extracted, "trip_type")),
                          TravelersPatch(
                              PutPath(EmptyDict, <<"status", "missing_required">>, missing),
                              trip_intent, GetN(extracted, "travelers")),
                          <<"itinerary", "trip_type">>, GetN(extracted, "trip_type")),
                WithReturnSegment(ExtractedSegments(trip_intent, extracted), extracted)),
            <<"itinerary", "lodging">>, LodgingPatch(trip_intent, extracted)),
        FlightPrefsPatch(extracted))

\* The patch that _apply_requirements_extract hands to the Patcher
ExtractPatch(trip_intent, result) ==
    PatchOf(trip_intent,
            Or(Get(result, "trip_intent", EmptyDict), EmptyDict),
            Or(Get(result, "missing_required_fields", EmptyList), EmptyList))

\* The note of the patch. The summary of the extracted fields is reduced to
\* its last part, which says whether anything is still missing.
ExtractNote(result) ==
    "Applied extracted requirements: "
        \o (IF Truthy(Or(Get(result, "missing_required_fields", EmptyList), EmptyList))
            THEN "missing_required: some" ELSE "missing_required: none")

\* stays[j] and segs[j + 1] after _ensure_min_stay_nights
_ensure_min_stay_nights(trip_intent) ==
    LET iti == Or(Get(trip_intent, "itinerary", EmptyDict), EmptyDict)
        segs == Or(Get(iti, "segments", EmptyList), EmptyList)[2]
        lodging == Or(Get(iti, "lodging", EmptyDict), EmptyDict)
        stays == Or(GetN(lodging, "stays"), EmptyList)[2]
        Short(j) == /\ j >= 1 /\ j <= Len(stays)
                    /\ Truthy(stays[j])
                    /\ Truthy(GetN(stays[j], "check_in")) /\ Truthy(GetN(stays[j], "check_out"))
                    /\ DateLE(stays[j][2]["check_out"], stays[j][2]["check_in"])
        stays1 == [j \in 1..Len(stays) |->
                     IF Short(j)
                     THEN Put(stays[j], "check_out", _add_days(stays[j][2]["check_in"], 1))
                     ELSE stays[j]]
        \* stay j (0-based j - 1) moves segs[j] (0-based), the segment i + 1 below
        segs1 == [i \in 1..Len(segs) |->
                     IF i >= 2 /\ Short(i - 1) /\ Truthy(segs[i])
                     THEN Put(segs[i], "depart_date", stays1[i - 1][2]["check_out"])
                     ELSE segs[i]]
    IN  IF stays = <<>> \/ Len(segs) < 2 THEN trip_intent
        ELSE Put(trip_intent, "itinerary",
                 Put(Put(iti, "segments", L(segs1)),
                     "lodging", Put(lodging, "stays", L(stays1))))

\* status["phase"] = "intake" (and the state when fields are missing), then
\* the note of the clarifying questions
ExtractStatus(status, missing, clarifying) ==
    PutIf(Truthy(clarifying),
          IF Truthy(missing)
          THEN SetPhaseState(status, "intake", "collecting_requirements")
          ELSE Put(status, "phase", S("intake")),
          "notes",
          ListAppend(Get(status, "notes", EmptyList), S("[clarifying_questions]")))

\* _apply_requirements_extract after the Patcher has returned trip_intent
AfterPatch(trip_intent, result) ==
    Put(trip_intent, "status",
        ExtractStatus(Get(trip_intent, "status", EmptyDict),
                      Or(Get(result, "missing_required_fields", EmptyList), EmptyList),
                      Or(Get(result, "clarifying_questions", EmptyList), EmptyList)))

ApplyPatch(trip_intent, result, patch) ==
    [trip_intent |->
        AfterPatch(_ensure_min_stay_nights(
                       PatcherRun(trip_intent, patch, "trip_requirements_extract",
                                  ExtractNote(result)).trip_intent),
                   result),
     patch |-> patch]

\* _apply_requirements_extract: [trip_intent, patch]
ApplyRequirementsExtract(trip_intent, result) ==
    ApplyPatch(trip_intent, result, ExtractPatch(trip_intent, result))

\* Applier.run(payload): [trip_intent]
ApplierRun(trip_intent, tool_name, result, arguments) ==
    IF _tool_id_from_name(tool_name) = "trip_requirements_extract"
    THEN [trip_intent |-> ApplyRequirementsExtract(trip_intent, result).trip_intent]
    ELSE ApplierFold(trip_intent, tool_name, result, arguments)

---------------------------------------------------------------------------
\* Runner._new_trip_intent (handlers/runner.py): the document a conversation
\* starts from, for trip_id "trip_1", the user message "plan a trip" and the
\* clock reading 1700000000.

NewTripIntent ==
    D([schema |-> S("renglo.trip_intent.v1"),
       trip_id |-> S("trip_1"),
       created_at |-> I(1700000000),
       updated_at |-> I(1700000000),
       request |-> D([user_message |-> S("plan a trip"), locale |-> S("en-US"),
                      timezone |-> S("America/New_York"),
                      now_iso |-> None, now_date |-> None]),
       status |-> D([phase |-> S("intake"), state |-> S("collecting_requirements"),
                     missing_required |-> EmptyList, assumptions |-> EmptyList,
                     notes |-> EmptyList]),
       party |-> D([travelers |-> D([adults |-> I(0), children |-> I(0), infants |-> I(0)]),
                    traveler_profile_ids |-> EmptyList,
                    guests |-> EmptyList,
                    contact |-> D([email |-> None, phone |-> None])]),
       itinerary |-> D([trip_type |-> None, segments |-> EmptyList,
                        lodging |-> D([needed |-> B(TRUE), check_in |-> None,
                                       check_out |-> None, location_hint |-> None,
                                       stays |-> EmptyList]),
                        ground |-> D([needed |-> B(FALSE)])]),
       preferences |-> D([flight |-> EmptyDict, hotel |-> EmptyDict]),
       constraints |-> D([budget_total |-> None, currency |-> S("USD"),
                          refundable_preference |-> S("either")]),
       policy |-> D([rules |-> D([require_user_approval_to_purchase |-> B(TRUE),
                                    holds_allowed_without_approval |-> B(TRUE)])]),
       working_memory |-> D([flight_quotes |-> EmptyList, hotel_quotes |-> EmptyList,
                             flight_quotes_by_segment |-> EmptyList,
                             hotel_quotes_by_stay |-> EmptyList,
                             ranked_bundles |-> EmptyList, risk_report |-> None,
                             selected |-> EmptySelected, holds |-> EmptyList,
                             bookings |-> EmptyList]),
       audit |-> D([events |-> EmptyList])])

---------------------------------------------------------------------------
\* Sample values of the inputs

Seg(id, o, d, date, mode) ==
    D([segment_id |-> S(id), origin |-> Airport(S(o)), destination |-> Airport(S(d)),
       depart_date |-> S(date), transport_mode |-> S(mode),
       depart_time_window |-> NoTimeWindow])

Stay(code, check_in, check_out) ==
    D([location_code |-> S(code), check_in |-> S(check_in), check_out |-> S(check_out),
       location_hint |-> None])

FlightOption(id) == D([option_id |-> S(id), price |-> I(300)])
HotelOption(id) == D([option_id |-> S(id), id |-> S(id), price |-> I(500)])

Bundle(id) ==
    D([bundle_id |-> S(id), flight_option_id |-> S("f1"), hotel_option_id |-> S("h1"),
       flight_option_ids |-> L(<<S("f1")>>), hotel_option_ids |-> L(<<S("h1")>>)])

Hold(id, status) == D([hold_id |-> S(id), status |-> S(status)])

RiskReport(blocking) ==
    D([blocking_issues |-> L(blocking), risks |-> L(<<S("tight connection")>>)])

\* A working memory whose every derived field is filled
CachedMemory ==
    D([flight_quotes |-> L(<<FlightOption("f1")>>),
       hotel_quotes |-> L(<<HotelOption("h1")>>),
       flight_quotes_by_segment |-> L(<< L(<<FlightOption("f1")>>) >>),
       hotel_quotes_by_stay |-> L(<< L(<< L(<<HotelOption("h1")>>) >>) >>),
       ranked_bundles |-> L(<<Bundle("b1")>>),
       risk_report |-> RiskReport(<<>>),
       selected |-> Bundle("b1"),
       holds |-> L(<<Hold("hold_1", "held")>>),
       bookings |-> EmptyList])

\* The round trip of the evals: EWR -> DEN and back, one stay at DEN, two adults
RoundTripItinerary ==
    D([trip_type |-> S("round_trip"),
       segments |-> L(<<Seg("seg_0", "EWR", "DEN", "2026-06-01", "flight"),
                        Seg("seg_1", "DEN", "EWR", "2026-06-05", "flight")>>),
       lodging |-> D([needed |-> B(TRUE), check_in |-> S("2026-06-01"),
                      check_out |-> S("2026-06-05")])])

\* The document of Patcher.run_tests: no constraints, no segments key
PatcherTestDoc ==
    D([working_memory |-> EmptyDict, status |-> EmptyDict,
       itinerary |-> D([lodging |-> D([needed |-> B(TRUE)])]),
       party |-> D([travelers |-> EmptyDict])])

\* The documents Patcher.run is applied to: the new document, the round trip
\* with and without a constraints key, the document of run_tests, a
\* document that has no itinerary yet, and the round trip with a budget of
\* 1000; each with empty and with filled caches.
PatcherBases ==
    { NewTripIntent,
      Put(NewTripIntent, "itinerary", RoundTripItinerary),
      Del(Put(NewTripIntent, "itinerary", RoundTripItinerary), "constraints"),
      PatcherTestDoc,
      Del(NewTripIntent, "itinerary"),
      PutPath(Put(NewTripIntent, "itinerary", RoundTripItinerary),
              <<"constraints", "budget_total">>, I(1000)) }

PatcherMemories ==
    { EmptyDict, CachedMemory, Put(CachedMemory, "risk_report", None),
      Put(CachedMemory, "bookings", L(<<D([booking_id |-> S("bk_1")])>>)) }

PatcherDocs ==
    { Put(b, "working_memory", w) : b \in PatcherBases, w \in PatcherMemories }

Patches ==
    { EmptyDict,
      D([itinerary |-> D([segments |-> L(<<Seg("seg_0", "JFK", "DEN", "2026-06-02", "flight")>>)])]),
      D([itinerary |-> D([trip_type |-> S("one_way")])]),
      D([itinerary |-> D([lodging |-> D([needed |-> B(FALSE)])])]),
      D([party |-> D([travelers |-> D([adults |-> I(3)])])]),
      D([preferences |-> D([hotel |-> D([stars |-> I(4)])])]),
      D([constraints |-> D([budget_total |-> I(1000)])]),
      D([constraints |-> D([budget_total |-> F(1000)])]),
      D([constraints |-> D([refundable_preference |-> S("refundable")])]),
      D([constraints |-> D([currency |-> S("EUR")])]),
      D([policy |-> D([rules |-> D([max_price |-> I(900)])])]),
      D([constraints |-> D([budget_total |-> I(1000)]),
         working_memory |-> D([risk_report |-> D([summary |-> S("over budget")])])]),
      D([status |-> D([phase |-> S("quote")])]) }

Notes == {"", "budget changed"}

---------------------------------------------------------------------------
\* Patcher.run as a function of its payload: one payload, applied once and
\* then once more to the document the first run returned.

NoCall == [op |-> "none"]

InitPatcher ==
    /\ doc \in PatcherDocs
    /\ last = NoCall
    /\ \E patch \in Patches, note \in Notes :
           aux = [patch |-> patch, patch_source |-> "user", note |-> note,
                  runs |-> 0, before |-> doc, once |-> doc]

PatcherEffect(out, runs) ==
    /\ doc' = out.trip_intent
    /\ last' = [op |-> "Patcher.run", changed_paths |-> out.changed_paths,
                cleared |-> out.cleared, reasons |-> out.reasons,
                suggested_next_tools |-> out.suggested_next_tools]
    /\ aux' = [aux EXCEPT !.runs = runs,
                          !.once = IF runs = 1 THEN out.trip_intent ELSE @]

PatcherCall(runs) ==
    PatcherEffect(PatcherRun(doc, aux.patch, aux.patch_source, aux.note), runs)

PatchOnce == aux.runs = 0 /\ PatcherCall(1)

PatchAgain == aux.runs = 1 /\ PatcherCall(2)

NextPatcher == PatchOnce \/ PatchAgain

SpecPatcher == InitPatcher /\ [][NextPatcher]_vars

\* The value under itinerary.segments, an unset key told from every value
SegmentsValue(d) ==
    LET iti == GetN(d, "itinerary")
    IN  IF IsDict(iti) /\ Has(iti, "segments")
        THEN [set |-> TRUE, value |-> iti[2]["segments"]]
        ELSE [set |-> FALSE, value |-> None]

WorkingMemory(d) == Get(d, "working_memory", EmptyDict)

\* The list at a path of keys, [] when there is none
ListAt(d, path) == Or(AtPath(d, path), EmptyList)[2]

\* C2: whenever one run of Patcher.run changes the value under
\* itinerary.segments (the document having had the key or not), the returned
\* document has empty flight_quotes_by_segment, ranked_bundles and holds, a
\* null risk_report and the empty selection.
C2_SegmentChangeInvalidates ==
    (aux.runs = 1 /\ SegmentsValue(aux.before) # SegmentsValue(doc))
        => /\ GetN(WorkingMemory(doc), "flight_quotes_by_segment") = EmptyList
           /\ GetN(WorkingMemory(doc), "ranked_bundles") = EmptyList
           /\ GetN(WorkingMemory(doc), "holds") = EmptyList
           /\ GetN(WorkingMemory(doc), "risk_report") = None
           /\ GetN(WorkingMemory(doc), "selected") = EmptySelected

RECURSIVE NoListValue(_)
NoListValue(x) ==
    /\ ~IsList(x)
    /\ IsDict(x) => \A k \in DOMAIN x[2] : NoListValue(x[2][k])

\* C4 as stated: for a patch with no list value, the document after two runs
\* of Patcher.run with the same patch, patch_source and note equals the
\* document after one run.
C4_TwiceEqualsOnce ==
    (aux.runs = 2 /\ NoListValue(aux.patch)) => doc = aux.once

\* C4 amended: for a patch with no list value and no working_memory key, and
\* an empty note, the document after two runs of Patcher.run with the same
\* payload equals the document after one run.
C4_TwiceEqualsOnceQuiet ==
    (/\ aux.runs = 2
     /\ NoListValue(aux.patch)
     /\ ~Has(aux.patch, "working_memory")
     /\ aux.note = "") => doc = aux.once

\* A second run of a list-free patch without note on a document that the
\* first run had changed and whose caches the first run had cleared
C4_Witness ==
    /\ aux.runs = 2
    /\ NoListValue(aux.patch)
    /\ ~Has(aux.patch, "working_memory")
    /\ aux.note = ""
    /\ aux.once # aux.before
    /\ Truthy(GetN(WorkingMemory(aux.before), "holds"))
    /\ ~Truthy(GetN(WorkingMemory(aux.once), "holds"))
    /\ doc = aux.once

\* The patch sets constraints.<key> to a value other than the current one
SetsConstraint(before, patch, key) ==
    /\ IsDict(GetN(patch, "constraints"))
    /\ Has(patch[2]["constraints"], key)
    /\ \/ ~IsDict(GetN(before, "constraints"))
       \/ ~Has(before[2]["constraints"], key)
       \/ before[2]["constraints"][2][key] # patch[2]["constraints"][2][key]

\* C6: when the document has non-empty holds (with or without a constraints
\* key) and the patch sets constraints.budget_total or
\* constraints.refundable_preference to a different value, the returned holds
\* are empty and the invalidations name working_memory.holds with a reason.
C6_BudgetChangeClearsHolds ==
    (/\ aux.runs = 1
     /\ Truthy(GetN(WorkingMemory(aux.before), "holds"))
     /\ \/ SetsConstraint(aux.before, aux.patch, "budget_total")
        \/ SetsConstraint(aux.before, aux.patch, "refundable_preference"))
        => /\ GetN(WorkingMemory(doc), "holds") = EmptyList
           /\ \E i \in 1..Len(last.cleared) :
                  last.cleared[i] = "working_memory.holds" /\ last.reasons[i] # ""

\* Every changed path lies under itinerary.lodging or preferences.hotel
HotelPathsOnly(changed_paths) ==
    /\ changed_paths # {}
    /\ \A cp \in changed_paths :
           StartsWith(cp, "itinerary.lodging") \/ StartsWith(cp, "preferences.hotel")

\* wm[key] with the default of _ensure_working_memory_defaults
ListOf(d, key) == Get(WorkingMemory(d), key, EmptyList)

\* C23: a patch whose changed paths all lie under itinerary.lodging or
\* preferences.hotel clears hotel_quotes_by_stay, hotel_quotes,
\* ranked_bundles, risk_report and holds, resets selected, and leaves
\* flight_quotes_by_segment, flight_quotes and bookings as they were.
C23_HotelChangeKeepsFlights ==
    (aux.runs = 1 /\ HotelPathsOnly(last.changed_paths))
        => /\ ListOf(doc, "hotel_quotes_by_stay") = EmptyList
           /\ ListOf(doc, "hotel_quotes") = EmptyList
           /\ ListOf(doc, "ranked_bundles") = EmptyList
           /\ GetN(WorkingMemory(doc), "risk_report") = None
           /\ ListOf(doc, "holds") = EmptyList
           /\ GetN(WorkingMemory(doc), "selected") = EmptySelected
           /\ ListOf(doc, "flight_quotes_by_segment")
                  = ListOf(aux.before, "flight_quotes_by_segment")
           /\ ListOf(doc, "flight_quotes") = ListOf(aux.before, "flight_quotes")
           /\ ListOf(doc, "bookings") = ListOf(aux.before, "bookings")

\* A hotel-only change applied to a document with every cache filled and a
\* booking made
C23_Witness ==
    /\ aux.runs = 1
    /\ HotelPathsOnly(last.changed_paths)
    /\ ListOf(aux.before, "hotel_quotes_by_stay") # EmptyList
    /\ ListOf(aux.before, "holds") # EmptyList
    /\ ListOf(doc, "flight_quotes_by_segment") # EmptyList
    /\ ListOf(doc, "bookings") # EmptyList

---------------------------------------------------------------------------
\* A patch that restates the document

\* Every value of the patch equals (Python ==) the value the document has at
\* the same key path
RECURSIVE Restates(_, _)
Restates(patch, d) ==
    IF IsDict(patch) /\ IsDict(d)
    THEN \A k \in DOMAIN patch[2] : Has(d, k) /\ Restates(patch[2][k], d[2][k])
    ELSE PyEq(patch, d)

\* The document the last run of Patcher.run was given
BeforeRun == IF aux.runs = 1 THEN aux.before ELSE aux.once

UpstreamPrefixes == {"itinerary", "party", "preferences", "policy", "constraints"}

\* quotes, ranked_bundles, risk_report, selected and holds of d, with the
\* defaults of _ensure_working_memory_defaults
Caches(d) ==
    LET wm == _ensure_working_memory_defaults(WorkingMemory(d))
    IN  [k \in {"flight_quotes", "hotel_quotes", "flight_quotes_by_segment",
                "hotel_quotes_by_stay", "ranked_bundles", "risk_report", "selected",
                "holds"} |-> GetN(wm, k)]

\* C38: a patch whose values all equal the document's values yields no
\* changed path under itinerary, party, preferences, policy or constraints,
\* and the run clears nothing: the caches keep their values.
C38_RestatingPatchClearsNothing ==
    (aux.runs >= 1 /\ Restates(aux.patch, BeforeRun))
        => /\ ~any_startswith(last.changed_paths, UpstreamPrefixes)
           /\ last.cleared = <<>>
           /\ Caches(doc) = Caches(BeforeRun)

\* The same for a patch that also keeps the type of every number
RestatingSameTypeClearsNothing ==
    (aux.runs >= 1 /\ Restates(aux.patch, BeforeRun)
                   /\ _deep_merge(BeforeRun, aux.patch) = BeforeRun)
        => /\ ~any_startswith(last.changed_paths, UpstreamPrefixes)
           /\ last.cleared = <<>>
           /\ Caches(doc) = Caches(BeforeRun)

\* A budget of 1000 restated to a document with every cache filled: nothing
\* is cleared
RestatedBudgetKeepsCaches ==
    /\ aux.runs = 1
    /\ aux.patch = D([constraints |-> D([budget_total |-> I(1000)])])
    /\ Restates(aux.patch, aux.before)
    /\ ListOf(aux.before, "holds") # EmptyList
    /\ Caches(doc) = Caches(aux.before)

\* The budget restated as 1000.0: constraints.budget_total is reported and
\* risk_report and holds are cleared
RestatedAsFloatClearsHolds ==
    /\ aux.runs = 1
    /\ aux.patch = D([constraints |-> D([budget_total |-> F(1000)])])
    /\ Restates(aux.patch, aux.before)
    /\ ListOf(aux.before, "holds") # EmptyList
    /\ "constraints.budget_total" \in last.changed_paths
    /\ ListOf(doc, "holds") = EmptyList

---------------------------------------------------------------------------
\* Reducer.run as a function of the document and the event

\* The documents Reducer.run is applied to: an itinerary, a party, a status
\* and a working memory.

\* A train leg followed by a flight leg, one way, no lodging
TrainThenFlightItinerary ==
    D([trip_type |-> S("one_way"),
       segments |-> L(<<Seg("seg_0", "NYP", "BOS", "2026-06-01", "train"),
                        Seg("seg_1", "BOS", "DEN", "2026-06-02", "flight")>>),
       lodging |-> D([needed |-> B(FALSE)])])

\* Multi-city: JFK -> SFO -> LAX -> JFK with one stay per city
MultiCityItinerary ==
    D([trip_type |-> S("multi_city"),
       segments |-> L(<<Seg("seg_0", "JFK", "SFO", "2026-06-01", "flight"),
                        Seg("seg_1", "SFO", "LAX", "2026-06-03", "flight"),
                        Seg("seg_2", "LAX", "JFK", "2026-06-05", "flight")>>),
       lodging |-> D([needed |-> B(TRUE), check_in |-> S("2026-06-01"),
                      check_out |-> S("2026-06-05"),
                      stays |-> L(<<Stay("SFO", "2026-06-01", "2026-06-03"),
                                    Stay("LAX", "2026-06-03", "2026-06-05")>>)])])

Itineraries ==
    { RoundTripItinerary, TrainThenFlightItinerary, NewTripIntent[2]["itinerary"] }

Parties ==
    { D([travelers |-> D([adults |-> I(2), children |-> I(0)])]),
      NewTripIntent[2]["party"] }

Statuses ==
    { D([phase |-> S("intake"), state |-> S("awaiting_confirmation"),
         missing_required |-> EmptyList]),
      D([phase |-> S("intake"), state |-> S("collecting_requirements"),
         missing_required |-> EmptyList, notes |-> EmptyList]),
      D([phase |-> S("quote"), state |-> S("presenting_options"),
         missing_required |-> EmptyList, notes |-> EmptyList]) }

\* Working memories: empty, as Applier.run leaves them after the quotes of
\* the round trip (two flight legs, one stay), after a hotel search that found
\* nothing, after a flight search stored without segment index, and with
\* every derived field filled.
QuotedFlights ==
    ApplierFold(
        ApplierFold(D([working_memory |-> EmptyDict]), "noma/flight_quote_search",
                    D([options |-> L(<<FlightOption("f1")>>)]), D([segment_index |-> I(0)])).trip_intent,
        "noma/flight_quote_search",
        D([options |-> L(<<FlightOption("f2")>>)]), D([segment_index |-> I(1)])).trip_intent

QuotedAll ==
    ApplierFold(QuotedFlights, "noma/hotel_quote_search",
                D([options |-> L(<<HotelOption("h1")>>)]), D([stay_index |-> I(0)])).trip_intent

QuotedNoHotelFound ==
    ApplierFold(QuotedFlights, "noma/hotel_quote_search",
                D([options |-> EmptyList]), D([stay_index |-> I(0)])).trip_intent

QuotedFlat ==
    ApplierFold(D([working_memory |-> EmptyDict]), "noma/flight_quote_search",
                D([options |-> L(<<FlightOption("f1")>>)]), EmptyDict).trip_intent

Memories ==
    { EmptyDict,
      QuotedFlights[2]["working_memory"],
      QuotedAll[2]["working_memory"],
      QuotedNoHotelFound[2]["working_memory"],
      QuotedFlat[2]["working_memory"],
      CachedMemory }

\* The three flight legs of the multi-city trip quoted; then its first stay
\* quoted, with a hotel found and with none found
QuotedThreeFlights ==
    ApplierFold(QuotedFlights, "noma/flight_quote_search",
                D([options |-> L(<<FlightOption("f3")>>)]), D([segment_index |-> I(2)])).trip_intent

QuotedFirstStay ==
    ApplierFold(QuotedThreeFlights, "noma/hotel_quote_search",
                D([options |-> L(<<HotelOption("h1")>>)]), D([stay_index |-> I(0)])).trip_intent

QuotedFirstStayEmpty ==
    ApplierFold(QuotedThreeFlights, "noma/hotel_quote_search",
                D([options |-> EmptyList]), D([stay_index |-> I(0)])).trip_intent

\* The round trip quoted, ranked, a bundle selected and checked, a hold placed
BookableMemory ==
    Put(Put(Put(Put(QuotedAll[2]["working_memory"],
        "ranked_bundles", L(<<Bundle("b1")>>)),
        "selected", Bundle("b1")),
        "risk_report", RiskReport(<<>>)),
        "holds", L(<<Hold("hold_1", "held")>>))

\* The same with the risk report naming a blocking issue, with and without
\* further risks
BlockedMemories ==
    { Put(BookableMemory, "risk_report", RiskReport(<<S("over budget")>>)),
      Put(BookableMemory, "risk_report",
          Put(RiskReport(<<S("over budget")>>), "risks", EmptyList)) }

\* The same with holds that are held, expired and cancelled, and with no
\* hold that is still held
HoldMemories ==
    { Put(BookableMemory, "holds",
          L(<<Hold("hold_1", "held"), Hold("hold_2", "expired"),
              Hold("hold_3", "held"), Hold("hold_4", "cancelled")>>)),
      Put(BookableMemory, "holds",
          L(<<Hold("hold_2", "expired"), Hold("hold_4", "cancelled")>>)) }

\* The flight leg of the train-then-flight trip quoted: segment 1 only
QuotedSecondLeg ==
    ApplierFold(D([working_memory |-> EmptyDict]), "noma/flight_quote_search",
                D([options |-> L(<<FlightOption("f2")>>)]), D([segment_index |-> I(1)])).trip_intent

ReducerMemories ==
    Memories \cup BlockedMemories \cup HoldMemories
    \cup { QuotedThreeFlights[2]["working_memory"],
           QuotedFirstStay[2]["working_memory"],
           QuotedFirstStayEmpty[2]["working_memory"],
           QuotedSecondLeg[2]["working_memory"] }

\* The last but one status carries the list an extraction wrote, whatever
\* the itinerary now holds; the last is the one a failed flight search left
ReducerStatuses ==
    Statuses \cup { D([phase |-> S("book"), state |-> S("placing_holds"),
                       missing_required |-> EmptyList, notes |-> EmptyList]),
                    D([phase |-> S("intake"), state |-> S("collecting_requirements"),
                       missing_required |-> L(<<S("travel dates")>>),
                       notes |-> EmptyList]),
                    D([phase |-> S("error"), state |-> S("retryable"),
                       missing_required |-> EmptyList,
                       last_tool_error |->
                           D([tool_name |-> S("noma/flight_quote_search"),
                              error |-> S("timeout"), at |-> I(1700000000)]),
                       notes |-> EmptyList]) }

ReducerDocs ==
    { D([trip_id |-> S("trip_1"), request |-> D([user_message |-> S(m)]),
         itinerary |-> i, party |-> p, status |-> st, working_memory |-> w]) :
        m \in {"yes"}, i \in Itineraries \cup {MultiCityItinerary}, p \in Parties,
        st \in ReducerStatuses, w \in ReducerMemories }

Event(type, data) == [type |-> type, data |-> data]

Events ==
    { Event("USER_MESSAGE", D([text |-> S("two adults to denver")])),
      Event("USER_SELECTED_BUNDLE", D([bundle_id |-> S("b1")])),
      Event("USER_REQUEST_HOLD", EmptyDict),
      Event("USER_APPROVED_PURCHASE",
            D([approval_token |-> S("tok"), payment_method_id |-> S("pm_1")])),
      Event("TOOL_ERROR", D([tool_name |-> S("noma/flight_quote_search"),
                             error |-> S("timeout")])),
      Event("TOOL_RESULT", D([tool_name |-> S("trip_requirements_extract"),
                              user_message |-> S("yes")])),
      Event("TOOL_RESULT", D([tool_name |-> S("trip_requirements_extract"),
                              user_message |-> S("change the return date")])),
      Event("TOOL_RESULT", D([tool_name |-> S("trip_requirements_extract")])),
      Event("TOOL_RESULT", D([tool_name |-> S("noma/flight_quote_search")])) }

Clock == {1700000000}

\* The result of an extraction that asks the user a question back
ClarifyingQuestion == "What date would you like to return?"

ReducerEvents ==
    Events \cup
    { Event("TOOL_RESULT",
            D([tool_name |-> S("trip_requirements_extract"),
               user_message |-> S("actually i need to change the return date"),
               result |-> D([clarifying_questions |-> L(<<S(ClarifyingQuestion)>>),
                             missing_required_fields |-> EmptyList])])) }

InitReducer ==
    /\ doc \in ReducerDocs
    /\ last = NoCall
    /\ \E event \in ReducerEvents, now \in Clock :
           aux = [event |-> event, now |-> now, before |-> doc]

ReducerEffect(out) ==
    /\ doc' = out.trip_intent
    /\ last' = [op |-> "Reducer.run", tool_calls |-> out.tool_calls,
                ui_messages |-> out.ui_messages]
    /\ UNCHANGED aux

Reduce == last = NoCall /\ ReducerEffect(ReducerRun(doc, aux.event, aux.now))

NextReducer == Reduce

SpecReducer == InitReducer /\ [][NextReducer]_vars

Reduced == last # NoCall

Phase(d) == AtPath(d, <<"status", "phase">>)
State(d) == AtPath(d, <<"status", "state">>)

\* The names of the returned tool calls, in order
CallNames(tool_calls) == [i \in 1..Len(tool_calls) |-> tool_calls[i].name]

Returns(tool_calls, name) == \E i \in 1..Len(tool_calls) : tool_calls[i].name = name

\* C1: on a TOOL_ERROR event, whatever the document and its prior status,
\* Reducer.run returns no tool call and leaves status (error, retryable).
C1_ToolErrorContained ==
    (Reduced /\ aux.event.type = "TOOL_ERROR")
        => /\ last.tool_calls = <<>>
           /\ Phase(doc) = S("error")
           /\ State(doc) = S("retryable")

\* A TOOL_ERROR reduced on a document that was presenting options with
\* every cache filled
C1_Witness ==
    /\ Reduced
    /\ aux.event.type = "TOOL_ERROR"
    /\ State(aux.before) = S("presenting_options")
    /\ Truthy(AtPath(aux.before, <<"working_memory", "ranked_bundles">>))
    /\ last.tool_calls = <<>>
    /\ State(doc) = S("retryable")

\* The options quoted for flight segment seg_idx (0-based): its own entry of
\* flight_quotes_by_segment, or the flat list for segment 0 when no entry is kept
FlightOptionsAt(wm, seg_idx) ==
    LET by_seg == Or(GetN(wm, "flight_quotes_by_segment"), EmptyList)[2]
    IN  IF by_seg # <<>>
        THEN (IF seg_idx < Len(by_seg) THEN Or(by_seg[seg_idx + 1], EmptyList)[2] ELSE <<>>)
        ELSE (IF seg_idx = 0 THEN Or(GetN(wm, "flight_quotes"), EmptyList)[2] ELSE <<>>)

\* The options quoted for stay j (0-based), over all its rooms
HotelOptionsAt(wm, j) ==
    LET by_stay == Or(GetN(wm, "hotel_quotes_by_stay"), EmptyList)[2]
    IN  IF by_stay # <<>>
        THEN (IF j < Len(by_stay) THEN _flatten_hotel_rooms(<<by_stay[j + 1]>>) ELSE <<>>)
        ELSE (IF j = 0 THEN <<Or(GetN(wm, "hotel_quotes"), EmptyList)>> ELSE <<>>)

EveryFlightLegQuoted(d) ==
    \A k \in 1..Len(_get_flight_segment_indices(d)) :
        FlightOptionsAt(WorkingMemory(d), _get_flight_segment_indices(d)[k]) # <<>>

EveryStayQuoted(d) ==
    \A j \in 1..Len(_get_effective_stays(d)) :
        \E r \in 1..Len(HotelOptionsAt(WorkingMemory(d), j - 1)) :
            Truthy(HotelOptionsAt(WorkingMemory(d), j - 1)[r])

\* C3: Reducer.run returns noma/trip_option_ranker only when every flight
\* segment has quotes stored for its own index and, lodging being needed,
\* every effective stay has quotes stored for its own index.
C3_NoPrematureRanking ==
    (Reduced /\ Returns(last.tool_calls, "noma/trip_option_ranker"))
        => /\ EveryFlightLegQuoted(doc)
           /\ Truthy(LodgingNeededRaw(doc)) => EveryStayQuoted(doc)

\* The message the confirmation gate reads
GateMessage(d, event) ==
    Or(GetN(event.data, "user_message"), RequestMessage(d))

NoQuotes(wm) ==
    /\ ~Truthy(GetN(wm, "flight_quotes"))
    /\ ~Truthy(GetN(wm, "flight_quotes_by_segment"))
    /\ ~Truthy(GetN(wm, "hotel_quotes"))
    /\ ~Truthy(GetN(wm, "hotel_quotes_by_stay"))

\* The case of C8: complete document with a flight leg, no quotes, awaiting
\* confirmation, and the result of the extraction arriving with a "yes"
AfterConfirmation ==
    /\ Reduced
    /\ aux.event.type = "TOOL_RESULT"
    /\ GetN(aux.event.data, "tool_name") = S("trip_requirements_extract")
    /\ GateMessage(aux.before, aux.event) \in {S("yes"), S("looks good")}
    /\ State(aux.before) = S("awaiting_confirmation")
    /\ _required_fields_missing_for_quotes(aux.before) = <<>>
    /\ _get_flight_segment_indices(aux.before) # <<>>
    /\ NoQuotes(WorkingMemory(aux.before))

\* C8: in that case Reducer.run returns exactly one tool call,
\* noma/flight_quote_search for the first flight segment, and neither a hotel
\* quote nor a ranking call.
C8_ConfirmationQuotesFirstLeg ==
    AfterConfirmation
        => /\ CallNames(last.tool_calls) = <<"noma/flight_quote_search">>
           /\ GetN(last.tool_calls[1].arguments, "segment_index")
                  = I(_get_flight_segment_indices(aux.before)[1])

\* The round trip of the evals confirmed: the flight of leg 0 is quoted
C8_Witness ==
    /\ AfterConfirmation
    /\ AtPath(aux.before, <<"itinerary">>) = RoundTripItinerary
    /\ Len(last.tool_calls) = 1
    /\ GetN(last.tool_calls[1].arguments, "segment_index") = I(0)
    /\ State(doc) = S("quoting_flights")

\* C10: for an event other than TOOL_ERROR, when required fields are missing
\* Reducer.run leaves status (intake, collecting_requirements) and returns one
\* tool call only: trip_requirements_extract on USER_MESSAGE,
\* generate_followup_questions on any other event.
C10_MissingDefersAll ==
    (/\ Reduced
     /\ aux.event.type # "TOOL_ERROR"
     /\ _required_fields_missing_for_quotes(doc) # <<>>)
        => /\ Phase(doc) = S("intake")
           /\ State(doc) = S("collecting_requirements")
           /\ CallNames(last.tool_calls) =
                  IF aux.event.type = "USER_MESSAGE"
                  THEN <<"trip_requirements_extract">>
                  ELSE <<"generate_followup_questions">>

\* A bundle is selected while the adults are missing: the risk check that
\* the event queued is not returned
C10_Witness ==
    /\ Reduced
    /\ aux.event.type = "USER_SELECTED_BUNDLE"
    /\ _required_fields_missing_for_quotes(doc) # <<>>
    /\ Truthy(AtPath(aux.before, <<"working_memory", "ranked_bundles">>))
    /\ CallNames(last.tool_calls) = <<"generate_followup_questions">>
    /\ State(doc) = S("collecting_requirements")

---------------------------------------------------------------------------
\* status.missing_required after Reducer.run

MissingRequired(d) == AtPath(d, <<"status", "missing_required">>)

\* C29: after Reducer.run on an event other than TOOL_ERROR,
\* status.missing_required is the list computed from the itinerary and the
\* party of the document, whatever list the status held before the call.
C29_MissingIsRecomputed ==
    (Reduced /\ aux.event.type # "TOOL_ERROR") =>
        MissingRequired(doc) = StrList(_required_fields_missing_for_quotes(doc))

\* The status held a list the itinerary no longer justifies, and the call
\* replaced it
C29_Witness ==
    /\ Reduced
    /\ aux.event.type # "TOOL_ERROR"
    /\ MissingRequired(aux.before) = L(<<S("travel dates")>>)
    /\ _required_fields_missing_for_quotes(aux.before) = <<>>
    /\ MissingRequired(doc) = EmptyList

\* An empty list was replaced by what the itinerary lacks
EmptyListReplaced ==
    /\ Reduced
    /\ aux.event.type # "TOOL_ERROR"
    /\ MissingRequired(aux.before) = EmptyList
    /\ MissingRequired(doc) # EmptyList

\* TOOL_ERROR returns before the recomputation: the list is as it was
ToolErrorKeepsList ==
    (Reduced /\ aux.event.type = "TOOL_ERROR") =>
        MissingRequired(doc) = MissingRequired(aux.before)

---------------------------------------------------------------------------
\* What a TOOL_ERROR leaves alone

StatusKeysOfToolError == {"phase", "state", "last_tool_error", "notes"}

\* d without the keys in keys
Without(d, keys) == D([k \in (DOMAIN d[2]) \ keys |-> d[2][k]])

\* C39: Reducer.run on TOOL_ERROR changes status.phase, status.state,
\* status.last_tool_error and status.notes only: every other key of the
\* document and of status keeps its value, and working_memory is the one it
\* was given, with the defaults set.
C39_ToolErrorChangesStatusOnly ==
    (Reduced /\ aux.event.type = "TOOL_ERROR")
        => /\ Without(doc, {"status", "working_memory"})
                  = Without(aux.before, {"status", "working_memory"})
           /\ WorkingMemory(doc) = _ensure_working_memory_defaults(WorkingMemory(aux.before))
           /\ Without(Get(doc, "status", EmptyDict), StatusKeysOfToolError)
                  = Without(Get(aux.before, "status", DefaultStatus), StatusKeysOfToolError)

\* A TOOL_ERROR reduced on a document with quotes, ranked bundles, a
\* selection and a hold: the error is recorded and the caches are all there
C39_Witness ==
    /\ Reduced
    /\ aux.event.type = "TOOL_ERROR"
    /\ Has(Get(doc, "status", EmptyDict), "last_tool_error")
    /\ ~Has(Get(aux.before, "status", EmptyDict), "last_tool_error")
    /\ ListOf(aux.before, "holds") # EmptyList
    /\ ListOf(doc, "holds") = ListOf(aux.before, "holds")
    /\ Truthy(AtPath(doc, <<"working_memory", "ranked_bundles">>))
    /\ Truthy(AtPath(doc, <<"working_memory", "flight_quotes">>))

---------------------------------------------------------------------------
\* Reducer.run: what it returns per event

\* C11: on a USER_MESSAGE event, whatever the document holds (required fields
\* complete or not, any caches, any prior state), Reducer.run returns exactly
\* one tool call, trip_requirements_extract.
C11_UserMessageOnlyExtracts ==
    (Reduced /\ aux.event.type = "USER_MESSAGE")
        => CallNames(last.tool_calls) = <<"trip_requirements_extract">>

\* A user message on a complete document that has no quotes yet: the quoting
\* that a later event would start is not started
C11_Witness ==
    /\ Reduced
    /\ aux.event.type = "USER_MESSAGE"
    /\ _required_fields_missing_for_quotes(aux.before) = <<>>
    /\ _get_flight_segment_indices(aux.before) # <<>>
    /\ NoQuotes(WorkingMemory(aux.before))
    /\ CallNames(last.tool_calls) = <<"trip_requirements_extract">>

\* The returned calls that quote flights or hotels
QuotingCalls(tool_calls) ==
    LET IsQuoting(c) == c.name \in {"noma/flight_quote_search", "noma/hotel_quote_search"}
    IN  SelectSeq(tool_calls, IsQuoting)

\* Stay j (0-based) has an entry in the cache: its own entry of
\* hotel_quotes_by_stay, or the flat list for stay 0 when no entry is kept
HasStayEntry(wm, j) ==
    LET by_stay == Or(GetN(wm, "hotel_quotes_by_stay"), EmptyList)[2]
    IN  IF by_stay # <<>>
        THEN j < Len(by_stay) /\ Truthy(by_stay[j + 1])
        ELSE j = 0 /\ Truthy(GetN(wm, "hotel_quotes"))

\* The flight segments (0-based indices, in order) without quotes
FlightLegsLacking(d) ==
    LET Lacks(i) == FlightOptionsAt(WorkingMemory(d), i) = <<>>
    IN  SelectSeq(_get_flight_segment_indices(d), Lacks)

\* The effective stays (0-based indices, in order) without an entry
StaysLacking(d) ==
    LET Lacks(j) == ~HasStayEntry(WorkingMemory(d), j)
    IN  SelectSeq(Range(Len(_get_effective_stays(d))), Lacks)

RiskReportOf(d) == Or(GetN(WorkingMemory(d), "risk_report"), EmptyDict)

\* C13: on USER_REQUEST_HOLD, when the risk report lists a blocking issue,
\* Reducer.run does not return noma/reservation_hold_create, whatever risks
\* the report lists and whatever bundle is selected.
C13_BlockingIssuesBlockHold ==
    (/\ Reduced
     /\ aux.event.type = "USER_REQUEST_HOLD"
     /\ Truthy(GetN(RiskReportOf(aux.before), "blocking_issues")))
        => ~Returns(last.tool_calls, "noma/reservation_hold_create")

\* A hold requested on a complete document with a selected bundle whose
\* report lists a blocking issue next to a risk: the status is left alone
C13_Witness ==
    /\ Reduced
    /\ aux.event.type = "USER_REQUEST_HOLD"
    /\ Truthy(GetN(RiskReportOf(aux.before), "blocking_issues"))
    /\ Truthy(GetN(RiskReportOf(aux.before), "risks"))
    /\ Truthy(AtPath(aux.before, <<"working_memory", "selected", "bundle_id">>))
    /\ _required_fields_missing_for_quotes(aux.before) = <<>>
    /\ last.tool_calls = <<>>
    /\ State(doc) = State(aux.before)

\* The hold_id of every hold with status held, in the order of the holds
HeldIdsOf(d) ==
    LET IsHeld(h) == GetN(h, "status") = S("held")
        held == SelectSeq(ListAt(d, <<"working_memory", "holds">>), IsHeld)
    IN  [k \in 1..Len(held) |-> GetN(held[k], "hold_id")]

BookPurchasing(d) == Phase(d) = S("book") /\ State(d) = S("purchasing")

\* C14: on USER_APPROVED_PURCHASE, Reducer.run returns
\* noma/booking_confirm_and_purchase only if a hold has status held, and then
\* with the hold_id of every held hold and of no other as hold_ids; with no
\* held hold it returns no purchase call and does not enter (book, purchasing).
C14_PurchaseOnlyHeldHolds ==
    (Reduced /\ aux.event.type = "USER_APPROVED_PURCHASE")
        => /\ \A i \in 1..Len(last.tool_calls) :
                 last.tool_calls[i].name = "noma/booking_confirm_and_purchase"
                    => /\ HeldIdsOf(aux.before) # <<>>
                       /\ GetN(last.tool_calls[i].arguments, "hold_ids")
                              = L(HeldIdsOf(aux.before))
           /\ HeldIdsOf(aux.before) = <<>>
                 => /\ ~Returns(last.tool_calls, "noma/booking_confirm_and_purchase")
                    /\ BookPurchasing(doc) => BookPurchasing(aux.before)

\* A purchase approved with two held holds among an expired and a cancelled one
C14_Witness ==
    /\ Reduced
    /\ aux.event.type = "USER_APPROVED_PURCHASE"
    /\ Len(ListAt(aux.before, <<"working_memory", "holds">>)) = 4
    /\ CallNames(last.tool_calls) = <<"noma/booking_confirm_and_purchase">>
    /\ GetN(last.tool_calls[1].arguments, "hold_ids") = L(<<S("hold_1"), S("hold_3")>>)
    /\ BookPurchasing(doc)

\* The event is the result of the extraction, and the message the
\* confirmation gate reads is a confirmation
ConfirmedByUser(d, event) ==
    /\ event.type = "TOOL_RESULT"
    /\ GetN(event.data, "tool_name") = S("trip_requirements_extract")
    /\ _is_confirmation(GateMessage(d, event)[2])

\* The clarifying questions of the extraction result the event carries
ClarifyingOf(event) ==
    Or(GetN(Or(GetN(event.data, "result"), EmptyDict), "clarifying_questions"), EmptyList)[2]

\* C17: awaiting confirmation with complete required fields, on the result of
\* an extraction whose user message is no confirmation and that carries
\* clarifying questions, Reducer.run keeps awaiting_confirmation, returns no
\* tool call and shows every clarifying question in ui_messages.
C17_ClarifyingQuestionsSurfaced ==
    (/\ Reduced
     /\ aux.event.type = "TOOL_RESULT"
     /\ GetN(aux.event.data, "tool_name") = S("trip_requirements_extract")
     /\ State(aux.before) = S("awaiting_confirmation")
     /\ _required_fields_missing_for_quotes(aux.before) = <<>>
     /\ ~ConfirmedByUser(aux.before, aux.event)
     /\ ClarifyingOf(aux.event) # <<>>)
        => /\ State(doc) = S("awaiting_confirmation")
           /\ last.tool_calls = <<>>
           /\ \A k \in 1..Len(ClarifyingOf(aux.event)) :
                 \E m \in 1..Len(last.ui_messages) :
                     Contains(last.ui_messages[m], ClarifyingOf(aux.event)[k][2])

\* C18: from (intake, awaiting_confirmation), Reducer.run returns no flight
\* quote, hotel quote or ranking call for any event other than the result of
\* an extraction whose user message is a confirmation.
C18_NoQuotesBeforeConfirmation ==
    (/\ Reduced
     /\ Phase(aux.before) = S("intake")
     /\ State(aux.before) = S("awaiting_confirmation")
     /\ ~ConfirmedByUser(aux.before, aux.event))
        => \A i \in 1..Len(last.tool_calls) :
               last.tool_calls[i].name \notin {"noma/flight_quote_search",
                                               "noma/hotel_quote_search",
                                               "noma/trip_option_ranker"}

\* The event is the result of a flight or hotel quote search
QuoteResultEvent(event) ==
    /\ event.type = "TOOL_RESULT"
    /\ GetN(event.data, "tool_name") \in {S("noma/flight_quote_search"),
                                          S("noma/hotel_quote_search")}

\* The case of C21: nothing required is missing, every flight segment and
\* every required stay has quotes, and no bundle is ranked yet
ReadyToRank(d) ==
    /\ _required_fields_missing_for_quotes(d) = <<>>
    /\ EveryFlightLegQuoted(d)
    /\ Truthy(LodgingNeededRaw(d)) => EveryStayQuoted(d)
    /\ ~Truthy(GetN(WorkingMemory(d), "ranked_bundles"))

\* C21: with required fields complete, every flight segment quoted, every
\* required stay quoted and no ranked bundle, Reducer.run on the result of a
\* quoting operation returns noma/trip_option_ranker and sets status to
\* (quote, ranking_bundles), whatever the mix of flight and other segments.
C21_AllQuotedRanks ==
    (Reduced /\ QuoteResultEvent(aux.event) /\ ReadyToRank(aux.before))
        => /\ Returns(last.tool_calls, "noma/trip_option_ranker")
           /\ Phase(doc) = S("quote")
           /\ State(doc) = S("ranking_bundles")

\* The same restricted to itineraries whose segments are all flights
AllFlightsQuotedRanks ==
    (/\ Reduced /\ QuoteResultEvent(aux.event) /\ ReadyToRank(aux.before)
     /\ Len(_get_flight_segment_indices(aux.before))
            = Len(Or(AtPath(aux.before, <<"itinerary", "segments">>), EmptyList)[2]))
        => /\ Returns(last.tool_calls, "noma/trip_option_ranker")
           /\ Phase(doc) = S("quote")
           /\ State(doc) = S("ranking_bundles")

---------------------------------------------------------------------------
\* Reducer._required_fields_missing_for_quotes on two documents that share
\* itinerary and party

\* Itineraries with required fields still open: a return leg without date and
\* a stay without check-out, and a second stay without location and check-in
IncompleteItineraries ==
    { PutPath(PutPath(RoundTripItinerary, <<"lodging", "check_out">>, None),
              <<"segments">>,
              L(<<Seg("seg_0", "EWR", "DEN", "2026-06-01", "flight"),
                  Put(Seg("seg_1", "DEN", "EWR", "2026-06-05", "flight"),
                      "depart_date", None)>>)),
      PutPath(MultiCityItinerary, <<"lodging", "stays">>,
              L(<<Stay("SFO", "2026-06-01", "2026-06-03"),
                  D([location_code |-> None, check_in |-> None,
                     check_out |-> S("2026-06-05")])>>)) }

\* What a document holds besides itinerary and party
Rest(wm, status, others) ==
    [working_memory |-> wm, status |-> status, others |-> others]

Rests ==
    { Rest(EmptyDict, st, o) :
        st \in Statuses, o \in {EmptyDict} }
    \cup
    { Rest(w, st, NewTripIntent) :
        w \in {QuotedAll[2]["working_memory"], CachedMemory}, st \in Statuses }

\* A document with the given itinerary and party; preferences, constraints
\* and policy are those of others, when it has them
DocOf(itinerary, party, rest) ==
    D([k \in {"itinerary", "party", "working_memory", "status"}
             \cup (DOMAIN rest.others[2] \cap {"preferences", "constraints", "policy"}) |->
         CASE k = "itinerary" -> itinerary
           [] k = "party" -> party
           [] k = "working_memory" -> rest.working_memory
           [] k = "status" -> rest.status
           [] OTHER -> rest.others[2][k]])

InitMissing ==
    /\ last = NoCall
    /\ \E itinerary \in Itineraries \cup {MultiCityItinerary} \cup IncompleteItineraries,
          party \in Parties, rest \in Rests, twin \in Rests :
           /\ doc = DocOf(itinerary, party, rest)
           /\ aux = [twin |-> DocOf(itinerary, party, twin)]

\* The computation on the document and on its twin
ComputeMissing ==
    /\ last = NoCall
    /\ last' = [op |-> "_required_fields_missing_for_quotes",
                missing |-> _required_fields_missing_for_quotes(doc),
                twin_missing |-> _required_fields_missing_for_quotes(aux.twin)]
    /\ UNCHANGED <<doc, aux>>

NextMissing == ComputeMissing

SpecMissing == InitMissing /\ [][NextMissing]_vars

\* C5: two documents with equal itinerary and equal party get identical
\* lists of missing required fields, whatever their working_memory, status,
\* preferences, constraints and policy hold.
C5_MissingIgnoresCaches ==
    (/\ last # NoCall
     /\ GetN(doc, "itinerary") = GetN(aux.twin, "itinerary")
     /\ GetN(doc, "party") = GetN(aux.twin, "party"))
        => last.missing = last.twin_missing

\* A document with stored hotel quotes and policy, and a twin with neither,
\* on an itinerary whose lodging fields are still open
C5_Witness ==
    /\ last # NoCall
    /\ Truthy(AtPath(doc, <<"working_memory", "hotel_quotes">>))
    /\ ~Truthy(AtPath(aux.twin, <<"working_memory", "hotel_quotes">>))
    /\ Has(doc, "policy") /\ ~Has(aux.twin, "policy")
    /\ GetN(doc, "status") # GetN(aux.twin, "status")
    /\ \E i \in 1..Len(last.missing) : last.missing[i] = "itinerary.lodging.check_out"
    /\ last.missing = last.twin_missing

---------------------------------------------------------------------------
\* Applier.run on a trip_requirements_extract result

ApplierItineraries ==
    { MultiCityItinerary, RoundTripItinerary, NewTripIntent[2]["itinerary"] }

ApplierDocs ==
    { Put(Put(Put(NewTripIntent, "itinerary", i), "status", st), "working_memory", w) :
        i \in ApplierItineraries, st \in Statuses, w \in {EmptyDict, CachedMemory} }

\* What the extraction found in the user's message (result.trip_intent)
Extractions ==
    { D([segments |-> L(<<D([origin |-> S("EWR")])>>)]),
      D([segments |-> L(<<D([depart_date |-> S("2026-06-02")])>>)]),
      D([segments |-> L(<<D([destination |-> S("SEA")]), D([origin |-> S("SEA")])>>)]),
      D([segments |-> L(<<D([origin |-> S("EWR")])>>),
         stays |-> L(<<D([check_in |-> S("2026-06-02")])>>)]),
      D([stays |-> L(<<D([check_in |-> S("2026-06-02")])>>)]),
      D([stays |-> L(<<D([check_in |-> S("2026-06-03")])>>)]),
      D([travelers |-> D([adults |-> I(2), children |-> None])]),
      D([origin |-> S("BOS"), destination |-> S("DEN"), trip_type |-> S("round_trip"),
         dates |-> D([departure_date |-> S("2026-06-02"),
                      return_date |-> S("2026-06-04")])]),
      D([origin |-> S("BOS"), destination |-> S("DEN"), trip_type |-> S("one_way"),
         dates |-> D([departure_date |-> S("2026-06-02")])]),
      D([origin |-> S("BOS"), destination |-> S("BOS"),
         dates |-> D([departure_date |-> S("2026-06-02")])]),
      D([destination |-> S("DEN")]),
      D([segments |-> L(<<D([origin |-> S("BOS"), destination |-> S("DEN"),
                             depart_date |-> S("2026-06-02")])>>),
         stays |-> L(<<D([location_code |-> S("DEN"), check_in |-> S("2026-06-02"),
                          check_out |-> S("2026-06-04")])>>)]),
      D([segments |-> L(<<D([origin |-> S("BOS"), destination |-> S("DEN"),
                             depart_date |-> S("2026-06-02")]),
                          D([origin |-> S("DEN"), destination |-> S("BOS"),
                             depart_date |-> S("2026-06-04")])>>)]) }

ExtractResults ==
    { D([trip_intent |-> e, missing_required_fields |-> L(m), clarifying_questions |-> L(q)]) :
        e \in Extractions,
        m \in {<<>>, <<S("party.travelers.adults")>>},
        q \in {<<>>, <<S("which airport?")>>} }

InitApplier ==
    /\ doc \in ApplierDocs
    /\ last = NoCall
    /\ \E result \in ExtractResults : aux = [result |-> result, before |-> doc]

ApplyEffect(out) ==
    /\ doc' = out.trip_intent
    /\ last' = [op |-> "Applier.run", patch |-> out.patch]
    /\ UNCHANGED aux

Apply == last = NoCall /\ ApplyEffect(ApplyRequirementsExtract(doc, aux.result))

NextApplier == Apply

SpecApplier == InitApplier /\ [][NextApplier]_vars

Applied == last # NoCall

Extracted == aux.result[2]["trip_intent"]

\* patched is existing with the fields that es specifies taken from es
OverlaidSegment(existing, es, patched) ==
    /\ CodeOf(GetN(patched, "origin")) =
          IF Truthy(GetN(es, "origin")) THEN es[2]["origin"]
          ELSE CodeOf(GetN(existing, "origin"))
    /\ CodeOf(GetN(patched, "destination")) =
          IF Truthy(GetN(es, "destination")) THEN es[2]["destination"]
          ELSE CodeOf(GetN(existing, "destination"))
    /\ \A k \in {"depart_date", "transport_mode", "depart_time_window", "segment_id"} :
          GetN(patched, k) = IF Truthy(GetN(es, k)) THEN es[2][k] ELSE GetN(existing, k)

OverlaidStay(existing, s, patched) ==
    \A k \in {"location_code", "check_in", "check_out", "location_hint"} :
        GetN(patched, k) = IF Truthy(GetN(s, k)) THEN s[2][k] ELSE GetN(existing, k)

EntryAt(seq, i) == IF i <= Len(seq) THEN seq[i] ELSE EmptyDict

\* The segments of patched are those of existing, each overlaid by the
\* extracted segment of the same index where there is one
KeepsAllSegments(existing, extracted, patched) ==
    /\ Len(patched) = Len(existing)
    /\ \A i \in 1..Len(existing) :
          OverlaidSegment(existing[i], EntryAt(extracted, i), patched[i])

KeepsAllStays(existing, extracted, patched) ==
    /\ Len(patched) = Len(existing)
    /\ \A j \in 1..Len(existing) :
          OverlaidStay(existing[j], EntryAt(extracted, j), patched[j])

Fewer(extracted, existing) == 0 < Len(extracted) /\ Len(extracted) < Len(existing)

\* C7: when the extraction supplies fewer segments (stays) than the document
\* has, the patch holds as many segments (stays) as the document had, each
\* the existing one except for the fields the extraction specified.
C7_FewerKeepsAll ==
    Applied =>
        /\ Fewer(ListAt(Extracted, <<"segments">>), ListAt(aux.before, <<"itinerary", "segments">>))
             => KeepsAllSegments(ListAt(aux.before, <<"itinerary", "segments">>),
                                 ListAt(Extracted, <<"segments">>),
                                 ListAt(last.patch, <<"itinerary", "segments">>))
        /\ Fewer(ListAt(Extracted, <<"stays">>), ListAt(aux.before, <<"itinerary", "lodging", "stays">>))
             => KeepsAllStays(ListAt(aux.before, <<"itinerary", "lodging", "stays">>),
                              ListAt(Extracted, <<"stays">>),
                              ListAt(last.patch, <<"itinerary", "lodging", "stays">>))

---------------------------------------------------------------------------
\* A conversation: Reducer.run, Applier.run and Patcher.run called in any
\* order on the document that Runner._new_trip_intent created

\* Conversations of at most MaxCalls handler calls are followed
MaxCalls == 6

ToolResult(tool_name, result, arguments) ==
    [tool_name |-> tool_name, result |-> result, arguments |-> arguments]

\* The results the tools hand back: the extraction of a complete round trip
\* without lodging, the quotes of its two flight segments, the ranked bundles,
\* a risk report, a hold and a purchase
ToolResults ==
    { ToolResult("trip_requirements_extract",
                 D([trip_intent |->
                        D([origin |-> S("EWR"), destination |-> S("DEN"),
                           trip_type |-> S("round_trip"),
                           dates |-> D([departure_date |-> S("2026-06-01"),
                                        return_date |-> S("2026-06-05")]),
                           lodging |-> D([needed |-> B(FALSE)]),
                           travelers |-> D([adults |-> I(2)])]),
                    missing_required_fields |-> EmptyList]),
                 EmptyDict),
      ToolResult("noma/flight_quote_search", D([options |-> L(<<FlightOption("f1")>>)]),
                 D([segment_index |-> I(0)])),
      ToolResult("noma/flight_quote_search", D([options |-> L(<<FlightOption("f2")>>)]),
                 D([segment_index |-> I(1)])),
      ToolResult("noma/trip_option_ranker", D([bundles |-> L(<<Bundle("b1")>>)]), EmptyDict),
      ToolResult("noma/policy_and_risk_check", RiskReport(<<>>), EmptyDict),
      ToolResult("noma/reservation_hold_create",
                 D([holds |-> L(<<Hold("hold_1", "held")>>)]), EmptyDict),
      ToolResult("noma/booking_confirm_and_purchase",
                 D([confirmation |-> D([booking_id |-> S("bk_1")])]), EmptyDict) }

\* The patch sent to Patcher.run directly: a budget
DirectPatches ==
    { D([constraints |-> D([budget_total |-> I(1000)])]) }

Init ==
    /\ doc = NewTripIntent
    /\ last = NoCall
    /\ aux = [calls |-> 0]

\* One handler call that returned trip_intent
Called(op, trip_intent) ==
    /\ aux.calls < MaxCalls
    /\ doc' = trip_intent
    /\ last' = [op |-> op]
    /\ aux' = [calls |-> aux.calls + 1]

ReducerCall ==
    \E event \in Events, now \in Clock :
        Called("Reducer.run", ReducerRun(doc, event, now).trip_intent)

ApplierCall ==
    \E r \in ToolResults :
        Called("Applier.run",
               ApplierRun(doc, r.tool_name, r.result, r.arguments).trip_intent)

PatcherDirectCall ==
    \E patch \in DirectPatches :
        Called("Patcher.run", PatcherRun(doc, patch, "user", "").trip_intent)

Next == ReducerCall \/ ApplierCall \/ PatcherDirectCall

Spec == Init /\ [][Next]_vars

\* The (phase, state) pairs of the state table
StateTable ==
    { <<"intake", "collecting_requirements">>, <<"intake", "awaiting_confirmation">>,
      <<"quote", "quoting_flights">>, <<"quote", "quoting_hotels">>,
      <<"quote", "ranking_bundles">>, <<"quote", "presenting_options">>,
      <<"quote", "risk_checking">>, <<"book", "placing_holds">>,
      <<"book", "purchasing">>, <<"book", "completed">>, <<"error", "retryable">> }

\* C9: after any sequence of Reducer.run, Applier.run and Patcher.run calls
\* on a new document, (status.phase, status.state) is a pair of the state table.
C9_StatusInStateTable ==
    <<Phase(doc)[2], State(doc)[2]>> \in StateTable

---------------------------------------------------------------------------
\* The flight caches after the fold of an extraction result

\* origin, destination and depart_date of the segments of a document
SegmentFacts(d) ==
    [i \in 1..Len(Segments(d)) |->
        << CodeOf(Or(GetN(Segments(d)[i], "origin"), EmptyDict)),
           CodeOf(Or(GetN(Segments(d)[i], "destination"), EmptyDict)),
           GetN(Segments(d)[i], "depart_date") >>]

FlightCachesEmpty(d) ==
    \A key \in {"flight_quotes_by_segment", "ranked_bundles", "holds"} :
        ~Truthy(AtPath(d, <<"working_memory", key>>))

\* C35: after Applier.run has folded an extraction result, if the origin,
\* the destination or the depart_date of any segment is not what it was
\* before the fold, flight_quotes_by_segment, ranked_bundles and holds are
\* empty.
C35_SegmentChangeClearsFlights ==
    (Applied /\ SegmentFacts(doc) # SegmentFacts(aux.before)) => FlightCachesEmpty(doc)

\* The same for the segments as Patcher.run left them, before the one-night
\* adjustment of the stays
PatchedSegmentsClearFlights ==
    (Applied /\ SegmentFacts(PatcherRun(aux.before, last.patch, "trip_requirements_extract",
                                        ExtractNote(aux.result)).trip_intent)
                  # SegmentFacts(aux.before))
        => FlightCachesEmpty(doc)

\* A depart_date was moved by the adjustment of a stay and the flight quotes
\* of the segment are still stored
MovedDateKeepsQuotes ==
    /\ Applied
    /\ AtPath(last.patch, <<"itinerary", "segments">>) = None
    /\ SegmentFacts(doc) # SegmentFacts(aux.before)
    /\ Truthy(AtPath(doc, <<"working_memory", "flight_quotes_by_segment">>))

---------------------------------------------------------------------------
\* The inferred return segment of the extraction patch

\* The segments of the patch, <<>> when it names none
PatchSegments == Or(AtPath(last.patch, <<"itinerary", "segments">>), EmptyList)[2]

\* The segments built from the extraction before the return is inferred
BuiltSegments == ExtractedSegments(aux.before, Extracted)

FirstOriginCode(segs) == CodeOf(Or(GetN(segs[1], "origin"), EmptyDict))

LastDestCode(segs) == CodeOf(Or(GetN(segs[Len(segs)], "destination"), EmptyDict))

\* Both ends of the segment list carry a code
EndsKnown(segs) ==
    /\ segs # <<>>
    /\ Truthy(FirstOriginCode(segs))
    /\ Truthy(LastDestCode(segs))

\* segs is built with one more segment, from the last destination of built
\* back to its first origin
ReturnAppended(built, segs) ==
    /\ Len(segs) = Len(built) + 1
    /\ SubSeq(segs, 1, Len(built)) = built
    /\ CodeOf(GetN(segs[Len(segs)], "origin")) = LastDestCode(built)
    /\ CodeOf(GetN(segs[Len(segs)], "destination")) = FirstOriginCode(built)

\* C30: when the segments built from an extraction carry a first origin code
\* and a last destination code, the patch holds them with a return segment
\* appended if the two codes differ and as they are if the codes are equal,
\* so that the patch's last destination is its first origin.
C30_PatchIsClosed ==
    (Applied /\ EndsKnown(BuiltSegments)) =>
        /\ IF FirstOriginCode(BuiltSegments) # LastDestCode(BuiltSegments)
           THEN ReturnAppended(BuiltSegments, PatchSegments)
           ELSE PatchSegments = BuiltSegments
        /\ LastDestCode(PatchSegments) = FirstOriginCode(PatchSegments)

\* A one-way extraction from BOS to DEN got a return segment from DEN to BOS
C30_Witness ==
    /\ Applied
    /\ EndsKnown(BuiltSegments)
    /\ Len(BuiltSegments) = 1
    /\ FirstOriginCode(BuiltSegments) = S("BOS")
    /\ LastDestCode(BuiltSegments) = S("DEN")
    /\ Len(PatchSegments) = 2
    /\ LastDestCode(PatchSegments) = S("BOS")

\* Segments that already end where they start are left as built
ClosedLeftAlone ==
    /\ Applied
    /\ EndsKnown(BuiltSegments)
    /\ FirstOriginCode(BuiltSegments) = LastDestCode(BuiltSegments)
    /\ PatchSegments = BuiltSegments

\* Without a first origin code no return segment is inferred
OpenEndLeftAlone ==
    (Applied /\ BuiltSegments # <<>> /\ ~EndsKnown(BuiltSegments)) =>
        PatchSegments = BuiltSegments

---------------------------------------------------------------------------
\* Applier.run on the result of a flight or hotel quote search

\* Options as the quoting services return them: with an option_id, with an
\* id only, and with neither
BareOption == D([price |-> I(250)])

IdOnlyOption == D([id |-> S("abc"), price |-> I(275)])

OptionLists ==
    { <<>>, <<BareOption>>, <<FlightOption("x1"), BareOption>>, <<IdOnlyOption>> }

QuoteIndexes == {None, I(0), I(1)}

\* arguments of the tool call: the index under key, or no index
IndexArguments(key, index) ==
    IF index = None THEN EmptyDict ELSE D([k \in {key} |-> index])

QuoteResults ==
    { ToolResult("noma/flight_quote_search", D([options |-> L(o)]),
                 IndexArguments("segment_index", i)) :
        o \in OptionLists, i \in QuoteIndexes }
    \cup
    { ToolResult("noma/hotel_quote_search", D([options |-> L(o)]),
                 IndexArguments("stay_index", i)) :
        o \in OptionLists, i \in QuoteIndexes }
    \cup
    { ToolResult("noma/hotel_quote_search", D([options_by_room |-> L(rooms)]),
                 IndexArguments("stay_index", i)) :
        rooms \in { << L(<<HotelOption("h1")>>), L(<<HotelOption("h2")>>) >>,
                    << L(<<HotelOption("h1"), BareOption>>), L(<<BareOption>>) >> },
        i \in QuoteIndexes }

\* A working memory with two entries in both arrays, a selection, a hold
\* and a booking
FullMemory ==
    Put(Put(Put(CachedMemory, "flight_quotes_by_segment",
                L(<< L(<<FlightOption("f1")>>), L(<<FlightOption("f2")>>) >>)),
            "hotel_quotes_by_stay",
            L(<< L(<< L(<<HotelOption("h1")>>) >>), L(<< L(<<HotelOption("h2")>>) >>) >>)),
        "bookings", L(<<D([booking_id |-> S("bk_1")])>>))

QuoteDocs ==
    { Put(NewTripIntent, "working_memory", w) :
        w \in { NewTripIntent[2]["working_memory"], QuotedFlights[2]["working_memory"],
                QuotedAll[2]["working_memory"], FullMemory } }

InitQuotes ==
    /\ doc \in QuoteDocs
    /\ last = NoCall
    /\ \E r \in QuoteResults : aux = [call |-> r, before |-> doc]

FoldQuotes ==
    /\ last = NoCall
    /\ doc' = ApplierRun(doc, aux.call.tool_name, aux.call.result, aux.call.arguments).trip_intent
    /\ last' = [op |-> "Applier.run"]
    /\ UNCHANGED aux

NextQuotes == FoldQuotes

SpecQuotes == InitQuotes /\ [][NextQuotes]_vars

\* The option lists of a result, one per room: options_by_room for a hotel
\* result that has it, the one list options otherwise
ResultRooms(call) ==
    IF IsList(GetN(call.result, "options_by_room"))
    THEN [r \in 1..Len(call.result[2]["options_by_room"][2]) |->
             call.result[2]["options_by_room"][2][r][2]]
    ELSE << Get(call.result, "options", EmptyList)[2] >>

\* The index the call names, 0 when it names none
IndexOf(call) ==
    IF Has(call.arguments, "segment_index") THEN call.arguments[2]["segment_index"][2]
    ELSE IF Has(call.arguments, "stay_index") THEN call.arguments[2]["stay_index"][2]
    ELSE 0

PrefixOf(call) ==
    IF call.tool_name = "noma/flight_quote_search" THEN "flt_seg" ELSE "htl_stay"

\* The option_id each option of the result is to carry, room after room
ExpectedIds(call) ==
    Flatten([r \in 1..Len(ResultRooms(call)) |->
        [p \in 1..Len(ResultRooms(call)[r]) |->
            IF GetN(ResultRooms(call)[r][p], "option_id") # None
            THEN ResultRooms(call)[r][p][2]["option_id"]
            ELSE S(PrefixOf(call) \o ToString(IndexOf(call)) \o "_" \o ToString(p - 1))]])

\* The options the fold stored for the call: the entry of the index it names,
\* the flat list when it names none
StoredOptions(d, call) ==
    IF call.tool_name = "noma/flight_quote_search"
    THEN (IF Has(call.arguments, "segment_index")
          THEN ListAt(d, <<"working_memory", "flight_quotes_by_segment">>)[IndexOf(call) + 1][2]
          ELSE ListAt(d, <<"working_memory", "flight_quotes">>))
    ELSE (IF Has(call.arguments, "stay_index")
          THEN FlatRooms(ListAt(d, <<"working_memory", "hotel_quotes_by_stay">>)[IndexOf(call) + 1])[2]
          ELSE ListAt(d, <<"working_memory", "hotel_quotes">>))

\* C19: after the fold of a flight or hotel quote result, given as options or
\* as options_by_room, every stored option carries an option_id: the one the
\* result supplied, or prefix, index, "_" and the option's position in its list.
C19_EveryStoredOptionHasId ==
    last # NoCall =>
        [i \in 1..Len(StoredOptions(doc, aux.call)) |->
            GetN(StoredOptions(doc, aux.call)[i], "option_id")] = ExpectedIds(aux.call)

---------------------------------------------------------------------------
\* The fold of an indexed quote result and what it leaves alone

\* The call names a segment_index or a stay_index
IndexedCall(call) ==
    Has(call.arguments, "segment_index") \/ Has(call.arguments, "stay_index")

\* The array the call writes to, and the array of the other kind
OwnArray(call) ==
    IF call.tool_name = "noma/flight_quote_search"
    THEN "flight_quotes_by_segment" ELSE "hotel_quotes_by_stay"

OtherArray(call) ==
    IF call.tool_name = "noma/flight_quote_search"
    THEN "hotel_quotes_by_stay" ELSE "flight_quotes_by_segment"

\* The working memory the fold started from, with the defaults run fills in
MemoryBefore == _ensure_working_memory_defaults(Get(aux.before, "working_memory", EmptyDict))

\* stored is the option given, with at most option_id and id added
SameOption(stored, given) ==
    IF ~IsDict(given) THEN stored = given
    ELSE /\ IsDict(stored)
         /\ DOMAIN given[2] \subseteq DOMAIN stored[2]
         /\ DOMAIN stored[2] \subseteq DOMAIN given[2] \cup {"option_id", "id"}
         /\ \A k \in DOMAIN given[2] : stored[2][k] = given[2][k]

\* The entry written for the call holds the options of the result: the list
\* itself for a flight result, one list per room for a hotel result
EntryHoldsResult(entry, call) ==
    IF call.tool_name = "noma/flight_quote_search"
    THEN /\ IsList(entry)
         /\ Len(entry[2]) = Len(ResultRooms(call)[1])
         /\ \A p \in 1..Len(entry[2]) : SameOption(entry[2][p], ResultRooms(call)[1][p])
    ELSE /\ IsList(entry)
         /\ Len(entry[2]) = Len(ResultRooms(call))
         /\ \A r \in 1..Len(entry[2]) :
               /\ IsList(entry[2][r])
               /\ Len(entry[2][r][2]) = Len(ResultRooms(call)[r])
               /\ \A p \in 1..Len(entry[2][r][2]) :
                     SameOption(entry[2][r][2][p], ResultRooms(call)[r][p])

\* Every position but the one written is as before, None where there was none
OtherEntriesKept(before, after, idx) ==
    /\ Len(after) = (IF Len(before) <= idx THEN idx + 1 ELSE Len(before))
    /\ \A j \in 1..Len(after) :
          j # idx + 1 => after[j] = (IF j <= Len(before) THEN before[j] ELSE None)

FoldFrame == {"ranked_bundles", "selected", "holds", "bookings"}

\* C26 (as the code has it): the fold of a flight or hotel quote result that
\* names an index writes the result's options at that position of its array,
\* each option with its option_id filled in where the options shape lacked
\* one, and for a hotel result as one list per room; lower positions that did
\* not exist become None; every other entry of the array, the array of the
\* other kind, ranked_bundles, selected, holds and bookings are as before.
C26_FoldWritesOneEntry ==
    (last # NoCall /\ IndexedCall(aux.call)) =>
        /\ EntryHoldsResult(ListOf(doc, OwnArray(aux.call))[2][IndexOf(aux.call) + 1], aux.call)
        /\ OtherEntriesKept(Get(MemoryBefore, OwnArray(aux.call), EmptyList)[2],
                            ListOf(doc, OwnArray(aux.call))[2], IndexOf(aux.call))
        /\ ListOf(doc, OtherArray(aux.call)) = Get(MemoryBefore, OtherArray(aux.call), EmptyList)
        /\ \A k \in FoldFrame : GetN(WorkingMemory(doc), k) = GetN(MemoryBefore, k)

\* An index beyond the array was folded into a memory that held quotes,
\* bundles, a selection, a hold and a booking
C26_Witness ==
    /\ last # NoCall
    /\ IndexedCall(aux.call)
    /\ IndexOf(aux.call) = 0
    /\ Len(ListOf(doc, OwnArray(aux.call))[2]) = 2
    /\ Truthy(GetN(MemoryBefore, "bookings"))
    /\ Truthy(GetN(MemoryBefore, "holds"))
    /\ ResultRooms(aux.call)[1] # <<>>

\* Lower positions were padded with None
PaddedWithNone ==
    /\ last # NoCall
    /\ IndexedCall(aux.call)
    /\ IndexOf(aux.call) = 1
    /\ ListOf(doc, OwnArray(aux.call))[2][1] = None

\* C26 (as stated): the entry written is the list of the result's options,
\* for a flight result and for a hotel result alike.
C26_EntryIsResultOptions ==
    (last # NoCall /\ IndexedCall(aux.call)) =>
        ListOf(doc, OwnArray(aux.call))[2][IndexOf(aux.call) + 1]
            = L(Flatten(ResultRooms(aux.call)))

---------------------------------------------------------------------------
\* Runner._run_tool_queue_and_followups (handlers/runner.py): the dispatch
\* loop of one turn. doc is trip_intent; aux holds queue, run_count and
\* tool_run_count, done once the loop has ended, and what the turn has seen:
\* failed once a TOOL_ERROR was reduced, runaway once a guard has acted, chat
\* the number of messages saved with AGU.save_chat (the bundle widget is
\* saved only along with a message and is not counted). trip_store.save
\* writes outside the document and is left out.

MAX_TOOL_RUNS_PER_TURN == 50

MAX_RUNS_PER_TOOL_NAME == 3

\* What a dispatched operation hands back: it raises with an error text, or
\* it returns result
Raised(error) == [raised |-> TRUE, error |-> error, result |-> None]

Returned(result) == [raised |-> FALSE, error |-> "", result |-> result]

\* The result of SHC.handler_call: {success, output}
HandlerResult(output) == D([success |-> B(TRUE), output |-> output])

HandlerFailure == D([success |-> B(FALSE), output |-> S("upstream timeout")])

\* The results of _call_trip_requirements_extract: a complete round trip
\* found in the message, nothing found, and the failure result
ExtractOutcomes ==
    { Returned(D([success |-> B(TRUE),
                  trip_intent |->
                      D([origin |-> S("EWR"), destination |-> S("DEN"),
                         trip_type |-> S("round_trip"),
                         dates |-> D([departure_date |-> S("2026-06-01"),
                                      return_date |-> S("2026-06-05")]),
                         travelers |-> D([adults |-> I(2)])]),
                  missing_required_fields |-> EmptyList,
                  clarifying_questions |-> EmptyList])),
      Returned(D([success |-> B(TRUE), trip_intent |-> EmptyDict,
                  missing_required_fields |-> EmptyList,
                  clarifying_questions |-> EmptyList])),
      Returned(D([success |-> B(FALSE), trip_intent |-> EmptyDict,
                  missing_required_fields |-> L(<<S("itinerary.segments")>>),
                  clarifying_questions |-> L(<<S("I couldn't parse that.")>>)])) }

\* What each operation may hand back
Outcomes(name) ==
    CASE name = "trip_requirements_extract" -> ExtractOutcomes
      [] name = "generate_followup_questions" ->
             { Returned(S("Which dates?")), Raised("llm unavailable") }
      [] name = "noma/flight_quote_search" ->
             { Returned(HandlerResult(D([options |-> L(<<BareOption>>)]))),
               Returned(HandlerResult(D([options |-> EmptyList]))),
               Returned(HandlerFailure), Raised("connection reset") }
      [] name = "noma/hotel_quote_search" ->
             { Returned(HandlerResult(D([options |-> L(<<HotelOption("h1")>>)]))),
               Returned(HandlerFailure) }
      [] name = "noma/trip_option_ranker" ->
             { Returned(HandlerResult(D([bundles |-> L(<<Bundle("b1")>>)]))),
               Raised("connection reset") }
      [] name = "noma/policy_and_risk_check" ->
             { Returned(HandlerResult(RiskReport(<<>>))),
               Returned(HandlerResult(RiskReport(<<S("over budget")>>))),
               Returned(HandlerFailure) }
      [] name = "noma/reservation_hold_create" ->
             { Returned(HandlerResult(D([holds |-> L(<<Hold("hold_1", "held")>>)]))),
               Returned(HandlerFailure) }
      [] name = "noma/booking_confirm_and_purchase" ->
             { Returned(HandlerResult(D([confirmation |-> D([booking_id |-> S("bk_1")])]))),
               Returned(HandlerFailure) }
      [] OTHER -> { Raised("not a valid tool") }

RunnerToolNames ==
    { "trip_requirements_extract", "generate_followup_questions",
      "noma/flight_quote_search", "noma/hotel_quote_search", "noma/trip_option_ranker",
      "noma/policy_and_risk_check", "noma/reservation_hold_create",
      "noma/booking_confirm_and_purchase" }

\* The mutant takes every returned result as a success.
RaisesMutant(name, outcome) == outcome.raised

\* The try block ends in an exception: the operation raised, or the result
\* of an operation other than generate_followup_questions has a falsy success
Raises(name, outcome) ==
    IF outcome.raised THEN TRUE
    ELSE /\ name # "generate_followup_questions"
         /\ ~Truthy(GetN(outcome.result, "success"))

\* str(e) of that exception
ErrorText(outcome) ==
    IF outcome.raised THEN outcome.error
    ELSE PyStr(Or(Or(GetN(outcome.result, "output"), GetN(outcome.result, "error")),
                  S("Handler call failed")))

\* status.setdefault("notes", []).append(text) on trip_intent
WithRunnerNote(trip_intent, text) ==
    Put(trip_intent, "status",
        Put(Get(trip_intent, "status", EmptyDict), "notes",
            ListAppend(Get(Get(trip_intent, "status", EmptyDict), "notes", EmptyList),
                       S(text))))

\* result.get("output", result) if isinstance(result.get("output"), dict) else result
ResultForApplier(result) ==
    IF IsDict(GetN(result, "output")) THEN result[2]["output"] ELSE result

\* The document after applier.run, the ranked_bundles written once more for
\* the ranker, and the [tool_success] note (the dump of the arguments is left out)
AfterApplier(trip_intent, tc, result) ==
    LET applied == ApplierRun(trip_intent, tc.name, ResultForApplier(result),
                              tc.arguments).trip_intent
        wm == Get(applied, "working_memory", EmptyDict)
        ranked == IF tc.name = "noma/trip_option_ranker"
                  THEN Put(wm, "ranked_bundles",
                           Get(ResultForApplier(result), "bundles", EmptyList))
                  ELSE wm
    IN  WithRunnerNote(Put(applied, "working_memory", ranked),
                       "[tool_success] " \o tc.name)

\* event_data of the TOOL_RESULT event
ResultEventData(tc, result) ==
    IF tc.name = "trip_requirements_extract" /\ Truthy(tc.arguments)
    THEN D([tool_name |-> S(tc.name), result |-> result,
            user_message |-> Get(tc.arguments, "user_message", S(""))])
    ELSE D([tool_name |-> S(tc.name), result |-> result])

\* reducer.run on the TOOL_RESULT event, on the document the applier left
ReducedResult(applied, tc, result, now) ==
    ReducerRun(applied, Event("TOOL_RESULT", ResultEventData(tc, result)), now)

\* reducer.run on the TOOL_ERROR event of the except branch
ReducedError(trip_intent, tc, outcome, now) ==
    ReducerRun(trip_intent,
               Event("TOOL_ERROR", D([tool_name |-> S(tc.name),
                                      error |-> S(ErrorText(outcome))])), now)
\* Runner.run up to the call of the loop: the first reducer.run of the turn
\* gives the document and the queue the loop starts from
TurnStart(trip_intent, event) ==
    LET out == ReducerRun(trip_intent, event, 1700000000)
    IN  [trip_intent |-> out.trip_intent, tool_queue |-> out.tool_calls,
         ui_messages |-> out.ui_messages]

\* A round trip for two adults that waits for the user's confirmation
AwaitingDoc ==
    D([trip_id |-> S("trip_1"), request |-> D([user_message |-> S("yes")]),
       itinerary |-> RoundTripItinerary,
       party |-> D([travelers |-> D([adults |-> I(2), children |-> I(0)])]),
       status |-> D([phase |-> S("intake"), state |-> S("awaiting_confirmation"),
                     missing_required |-> EmptyList]),
       working_memory |-> EmptyDict])

\* The same trip with its quotes ranked, a bundle selected and a hold placed
PresentedDoc ==
    Put(Put(AwaitingDoc, "working_memory", BookableMemory), "status",
        D([phase |-> S("quote"), state |-> S("presenting_options"),
           missing_required |-> EmptyList]))

\* Four flights in a row, JFK -> SFO -> LAX -> SEA -> JFK, no lodging
FourLegItinerary ==
    D([trip_type |-> S("multi_city"),
       segments |-> L(<<Seg("seg_0", "JFK", "SFO", "2026-06-01", "flight"),
                        Seg("seg_1", "SFO", "LAX", "2026-06-03", "flight"),
                        Seg("seg_2", "LAX", "SEA", "2026-06-05", "flight"),
                        Seg("seg_3", "SEA", "JFK", "2026-06-07", "flight")>>),
       lodging |-> D([needed |-> B(FALSE)])])

\* The round trip after a flight search that failed in an earlier turn
FailedDoc ==
    Put(AwaitingDoc, "status",
        D([phase |-> S("error"), state |-> S("retryable"),
           missing_required |-> EmptyList,
           last_tool_error |-> D([tool_name |-> S("noma/flight_quote_search"),
                                  error |-> S("upstream timeout"),
                                  at |-> I(1700000000)]),
           notes |-> EmptyList]))

FollowupsCall ==
    ToolCall("generate_followup_questions",
             D([missing |-> L(<<S("itinerary.segments")>>)]))

\* The turns: a first message, a confirmation (of a round trip, of three
\* flights with two stays, of four flights), a new message after a failed
\* flight search, a selection made before the
\* confirmation, the three user actions on presented options, and a queue of
\* MAX_TOOL_RUNS_PER_TURN + 1 calls handed to the loop
TurnStarts ==
    { TurnStart(NewTripIntent, Event("USER_MESSAGE", D([text |-> S("two adults to denver")]))),
      TurnStart(AwaitingDoc, Event("USER_MESSAGE", D([text |-> S("yes")]))),
      TurnStart(Put(AwaitingDoc, "itinerary", MultiCityItinerary),
                Event("USER_MESSAGE", D([text |-> S("yes")]))),
      TurnStart(Put(AwaitingDoc, "itinerary", FourLegItinerary),
                Event("USER_MESSAGE", D([text |-> S("yes")]))),
      TurnStart(FailedDoc, Event("USER_MESSAGE", D([text |-> S("try again")]))),
      TurnStart(AwaitingDoc, Event("USER_SELECTED_BUNDLE", D([bundle_id |-> S("b1")]))),
      TurnStart(PresentedDoc, Event("USER_SELECTED_BUNDLE", D([bundle_id |-> S("b1")]))),
      TurnStart(PresentedDoc, Event("USER_REQUEST_HOLD", EmptyDict)),
      TurnStart(PresentedDoc,
                Event("USER_APPROVED_PURCHASE",
                      D([approval_token |-> S("tok"), payment_method_id |-> S("pm_1")]))),
      [trip_intent |-> NewTripIntent,
       tool_queue |-> [i \in 1..(MAX_TOOL_RUNS_PER_TURN + 1) |-> FollowupsCall],
       ui_messages |-> <<>>] }

InitRunner ==
    /\ \E start \in TurnStarts :
          /\ doc = start.trip_intent
          /\ aux = [queue |-> start.tool_queue, run_count |-> 0,
                    tool_run_count |-> [n \in RunnerToolNames |-> 0],
                    done |-> FALSE, failed |-> FALSE, runaway |-> FALSE,
                    chat |-> Len(start.ui_messages),
                    popped |-> 0, ran |-> [n \in RunnerToolNames |-> 0],
                    empty |-> FALSE]
    /\ last = NoCall

\* The loop is at its head with a call to pop
AtLoopHead == ~aux.done /\ aux.queue # <<>>

\* The iteration gets past both guards and dispatches the head of the queue
Dispatching ==
    /\ AtLoopHead
    /\ aux.run_count + 1 <= MAX_TOOL_RUNS_PER_TURN
    /\ Head(aux.queue).name \in RunnerToolNames
    /\ aux.tool_run_count[Head(aux.queue).name] < MAX_RUNS_PER_TOOL_NAME

\* The mutant forgets to count the run under the name of the tool.
CountedMutant(followups, ui_messages) ==
    [aux EXCEPT !.queue = Tail(@) \o followups,
                !.run_count = @ + 1,
                !.chat = @ + Len(ui_messages),
                !.popped = @ + 1,
                !.ran[Head(aux.queue).name] = @ + 1]

\* queue.pop(0), the two counters of a dispatched call, the reducer's
\* tool_calls appended to the queue and its ui_messages saved to the chat;
\* popped and ran count the pops and the runs for the properties below
Counted(followups, ui_messages) ==
    [aux EXCEPT !.queue = Tail(@) \o followups,
                !.run_count = @ + 1,
                !.tool_run_count[Head(aux.queue).name] = @ + 1,
                !.chat = @ + Len(ui_messages),
                !.popped = @ + 1,
                !.ran[Head(aux.queue).name] = @ + 1]

\* run_count > MAX_TOOL_RUNS_PER_TURN: (error, retryable), a note, break
RunawayStop ==
    /\ AtLoopHead
    /\ aux.run_count + 1 > MAX_TOOL_RUNS_PER_TURN
    /\ doc' = WithRunnerNote(
                  Put(doc, "status",
                      SetPhaseState(Get(doc, "status", EmptyDict), "error", "retryable")),
                  "[runaway] Too many tool runs this turn; stopping to avoid loop. Say 'try again' or send a new message.")
    /\ aux' = [aux EXCEPT !.run_count = @ + 1, !.done = TRUE, !.runaway = TRUE,
                           !.chat = @ + 1]
    /\ last' = [op |-> "runaway_stop", name |-> "", raised |-> FALSE, success |-> FALSE,
                applied |-> FALSE, event |-> "", after_failure |-> aux.failed,
                before |-> doc, said |-> 1]

\* tool_run_count.get(tc.name, 0) >= MAX_RUNS_PER_TOOL_NAME: a note, continue
SkipRepeated ==
    /\ AtLoopHead
    /\ aux.run_count + 1 <= MAX_TOOL_RUNS_PER_TURN
    /\ aux.tool_run_count[Head(aux.queue).name] >= MAX_RUNS_PER_TOOL_NAME
    /\ doc' = WithRunnerNote(doc, "[runaway] Skipping " \o Head(aux.queue).name
                                  \o ": already run 3 times this turn.")
    /\ aux' = [aux EXCEPT !.queue = Tail(@), !.run_count = @ + 1, !.runaway = TRUE,
                           !.popped = @ + 1]
    /\ last' = [op |-> "skip", name |-> Head(aux.queue).name, raised |-> FALSE,
                success |-> FALSE, applied |-> FALSE, event |-> "",
                after_failure |-> aux.failed, before |-> doc, said |-> 0]

\* generate_followup_questions returned: its message is saved, continue
AskFollowups ==
    /\ Dispatching
    /\ Head(aux.queue).name = "generate_followup_questions"
    /\ \E outcome \in Outcomes(Head(aux.queue).name) :
          /\ ~Raises(Head(aux.queue).name, outcome)
          /\ doc' = doc
          /\ aux' = Counted(<<>>, IF Truthy(outcome.result) THEN <<outcome.result>>
                                  ELSE <<>>)
          /\ last' = [op |-> "dispatch", name |-> Head(aux.queue).name,
                      raised |-> FALSE, success |-> TRUE, applied |-> FALSE,
                      event |-> "", after_failure |-> aux.failed, before |-> doc,
                      said |-> IF Truthy(outcome.result) THEN 1 ELSE 0]

\* The except branch: reducer.run on TOOL_ERROR, continue
DispatchFails ==
    /\ Dispatching
    /\ \E outcome \in Outcomes(Head(aux.queue).name) :
          /\ Raises(Head(aux.queue).name, outcome)
          /\ \E out \in {ReducedError(doc, Head(aux.queue), outcome, 1700000000)} :
                /\ doc' = out.trip_intent
                /\ aux' = [Counted(<<>>, out.ui_messages) EXCEPT !.failed = TRUE]
                /\ last' = [op |-> "dispatch", name |-> Head(aux.queue).name,
                            raised |-> outcome.raised,
                            success |-> IF outcome.raised THEN FALSE
                                        ELSE Truthy(GetN(outcome.result, "success")),
                            applied |-> FALSE, event |-> "TOOL_ERROR",
                            after_failure |-> aux.failed, before |-> doc,
                            said |-> Len(out.ui_messages)]

\* The operation found nothing: no options, or no bundles
EmptyResult(result) ==
    LET output == ResultForApplier(result)
    IN  \/ Get(output, "options", None) = EmptyList
        \/ Get(output, "bundles", None) = EmptyList

\* The result goes to applier.run, then reducer.run on TOOL_RESULT; the
\* reducer's tool_calls are appended to the queue
DispatchSucceeds ==
    /\ Dispatching
    /\ Head(aux.queue).name # "generate_followup_questions"
    /\ \E outcome \in Outcomes(Head(aux.queue).name) :
          /\ ~Raises(Head(aux.queue).name, outcome)
          /\ \E applied \in {AfterApplier(doc, Head(aux.queue), outcome.result)} :
             \E out \in {ReducedResult(applied, Head(aux.queue), outcome.result,
                                       1700000000)} :
                /\ doc' = out.trip_intent
                /\ aux' = [Counted(out.tool_calls, out.ui_messages)
                             EXCEPT !.empty = @ \/ EmptyResult(outcome.result)]
                /\ last' = [op |-> "dispatch", name |-> Head(aux.queue).name,
                            raised |-> FALSE,
                            success |-> Truthy(GetN(outcome.result, "success")),
                            applied |-> TRUE, event |-> "TOOL_RESULT",
                            after_failure |-> aux.failed, before |-> doc,
                            said |-> Len(out.ui_messages)]

\* while queue: is false, the loop returns trip_intent
TurnEnds ==
    /\ ~aux.done
    /\ aux.queue = <<>>
    /\ aux' = [aux EXCEPT !.done = TRUE]
    /\ UNCHANGED <<doc, last>>

NextRunner ==
    \/ RunawayStop
    \/ SkipRepeated
    \/ AskFollowups
    \/ DispatchFails
    \/ DispatchSucceeds
    \/ TurnEnds

SpecRunner == InitRunner /\ [][NextRunner]_vars

---------------------------------------------------------------------------
\* Claims on the dispatch loop

\* The turn has ended in (error, retryable)
ErrorRetryable(d) == Phase(d) = S("error") /\ State(d) = S("retryable")

\* The loop has dispatched (or tried to dispatch) an operation in the last step
Dispatched == last.op = "dispatch"

\* C15: when the dispatches of a turn exceed MAX_TOOL_RUNS_PER_TURN, or a
\* name that already ran MAX_RUNS_PER_TOOL_NAME times is queued again, the
\* turn ends with status (error, retryable).
C15_RunawayEndsInError ==
    (aux.done /\ aux.runaway) => ErrorRetryable(doc)

\* The part of C15 on the total number of runs
TotalLimitEndsInError ==
    last.op = "runaway_stop" => (aux.done /\ ErrorRetryable(doc))

\* C16: applier.run is called only for a successful result; an operation
\* that raises, or whose result has a falsy success, is reduced as a
\* TOOL_ERROR and leaves working_memory as it was.
C16_ApplierOnlyOnSuccess ==
    Dispatched =>
        /\ last.applied => (~last.raised /\ last.success)
        /\ (last.raised \/ ~last.success) =>
               /\ last.event = "TOOL_ERROR"
               /\ ~last.applied
               /\ WorkingMemory(doc) = WorkingMemory(last.before)

\* A flight search returned with a falsy success and was reduced as an error
C16_Witness ==
    /\ Dispatched
    /\ last.name = "noma/flight_quote_search"
    /\ ~last.raised
    /\ ~last.success
    /\ last.event = "TOOL_ERROR"
    /\ ErrorRetryable(doc)

\* C20: once an operation has failed and its TOOL_ERROR was reduced, no
\* further operation is dispatched in that turn, and the turn ends with
\* status (error, retryable).
C20_TurnAbandonedAfterError ==
    /\ Dispatched => ~last.after_failure
    /\ (aux.done /\ aux.failed) => ErrorRetryable(doc)

\* A TOOL_ERROR reduced in the last step saved a message to the chat
ToolErrorIsSaid == (Dispatched /\ last.event = "TOOL_ERROR") => last.said >= 1

\* The guard on the total number of runs saved a message to the chat
TotalGuardIsSaid == last.op = "runaway_stop" => last.said >= 1

\* A turn in which an operation failed or a guard acted has saved some
\* message to the chat by its end, from whichever step
TurnWithErrorHasMessage ==
    (aux.done /\ (aux.failed \/ aux.runaway)) => aux.chat >= 1

\* C22: each way a turn can end in an error emits a user-visible message: a
\* TOOL_ERROR reduced by Reducer.run, the guard on the total number of runs,
\* and the guard on the runs of one operation name.
C22_EveryErrorIsSaid ==
    /\ ToolErrorIsSaid
    /\ TotalGuardIsSaid
    /\ last.op = "skip" => last.said >= 1

---------------------------------------------------------------------------
\* Reducer.run, Patcher.run and Applier.run called twice with equal payloads.
\* What a run may read besides its payload is drawn anew for each run: the
\* clock read by the TOOL_ERROR branch (reducer.py 530), and the iteration
\* order of the key set built by _compute_changed_paths (patcher.py 87-88),
\* which Python leaves unspecified for a set of strings.

\* Two readings of int(time.time())
Clocks == {1700000000, 1700000001}

\* The enumerations of a finite set
Perms(set) ==
    { f \in [1..Cardinality(set) -> set] :
        \A i, j \in 1..Cardinality(set) : i # j => f[i] # f[j] }

\* The concatenations of one sequence from each per[order[i]], in that order
RECURSIVE CatAll(_, _)
CatAll(order, per) ==
    IF order = <<>> THEN { <<>> }
    ELSE { a \o b : a \in per[Head(order)], b \in CatAll(Tail(order), per) }

\* _compute_changed_paths as the list it returns: for a dict the keys are
\* visited in any order, the paths found under one key staying together
RECURSIVE PathOrders(_, _, _)
PathOrders(before, after, prefix) ==
    IF PyType(before) # PyType(after) THEN { <<PrefixOrRoot(prefix)>> }
    ELSE IF IsDict(before)
    THEN LET keys == DOMAIN before[2] \cup DOMAIN after[2]
             per == [k \in keys |->
                       LET p == IF prefix # "" THEN prefix \o "." \o k ELSE k
                       IN  IF k \notin DOMAIN before[2] \/ k \notin DOMAIN after[2]
                           THEN { <<p>> }
                           ELSE PathOrders(before[2][k], after[2][k], p)]
             changed == { k \in keys : per[k] # { <<>> } }
         IN  UNION { CatAll(order, per) : order \in Perms(changed) }
    ELSE IF before # after THEN { <<PrefixOrRoot(prefix)>> } ELSE { <<>> }

\* What a run returns, with the fields a handler does not have left empty
Returned3(trip_intent, tool_calls, ui_messages, changed_paths) ==
    [trip_intent |-> trip_intent, tool_calls |-> tool_calls,
     ui_messages |-> ui_messages, changed_paths |-> changed_paths]

TwinDocs ==
    { NewTripIntent, AwaitingDoc, PresentedDoc }

TwinPatches ==
    { D([itinerary |-> D([lodging |-> D([needed |-> B(FALSE)])])]),
      D([constraints |-> D([budget_total |-> I(1000)])]),
      D([itinerary |-> D([trip_type |-> S("one_way")]),
         party |-> D([travelers |-> D([adults |-> I(3)])])]),
      D([itinerary |-> D([trip_type |-> S("one_way")]),
         party |-> D([travelers |-> D([adults |-> I(3)])]),
         preferences |-> D([hotel |-> D([stars |-> I(4)])])]) }

InitTwin ==
    /\ doc \in TwinDocs
    /\ last = NoCall
    /\ \/ \E event \in ReducerEvents :
             aux = [handler |-> "Reducer", event |-> event, runs |-> 0,
                    before |-> doc, first |-> NoCall]
       \/ \E patch \in TwinPatches :
             aux = [handler |-> "Patcher", patch |-> patch, runs |-> 0,
                    before |-> doc, first |-> NoCall]
       \/ \E r \in ToolResults :
             aux = [handler |-> "Applier", result |-> r, runs |-> 0,
                    before |-> doc, first |-> NoCall]

\* The run is recorded; the first run's return is kept for comparison
TwinEffect(out) ==
    /\ doc' = out.trip_intent
    /\ last' = out
    /\ aux' = [aux EXCEPT !.runs = @ + 1,
                          !.first = IF aux.runs = 0 THEN out ELSE @]

TwinReduce ==
    /\ aux.handler = "Reducer"
    /\ aux.runs < 2
    /\ \E now \in Clocks :
          \E out \in {ReducerRun(aux.before, aux.event, now)} :
             TwinEffect(Returned3(out.trip_intent, out.tool_calls, out.ui_messages, <<>>))

TwinPatch ==
    /\ aux.handler = "Patcher"
    /\ aux.runs < 2
    /\ \E out \in {PatcherRun(aux.before, aux.patch, "user", "")} :
          \E changed_paths \in PathOrders(aux.before,
                                          WithNote(_deep_merge(aux.before, aux.patch),
                                                   "user", ""), "") :
             TwinEffect(Returned3(out.trip_intent, <<>>, <<>>, changed_paths))

TwinApply ==
    /\ aux.handler = "Applier"
    /\ aux.runs < 2
    /\ \E out \in {ApplierRun(aux.before, aux.result.tool_name, aux.result.result,
                              aux.result.arguments)} :
          TwinEffect(Returned3(out.trip_intent, <<>>, <<>>, <<>>))

NextTwin == TwinReduce \/ TwinPatch \/ TwinApply

SpecTwin == InitTwin /\ [][NextTwin]_vars

\* The two runs returned the same document, calls, messages and changed_paths
SameReturn == last = aux.first

\* C24: Reducer.run, Patcher.run and Applier.run are deterministic: two runs
\* with equal payloads return equal documents, equal tool calls, equal
\* messages and equal changed_paths in the same order, for every event type
\* including TOOL_ERROR.
C24_TwoRunsAgree == aux.runs = 2 => SameReturn

\* Applier.run alone, and Reducer.run on every event but TOOL_ERROR
ApplierRunsAgree == (aux.runs = 2 /\ aux.handler = "Applier") => SameReturn

ReducerRunsAgreeButToolError ==
    (aux.runs = 2 /\ aux.handler = "Reducer" /\ aux.event.type # "TOOL_ERROR") => SameReturn

\* Patcher.run: the documents agree and the changed paths are the same set
PatcherRunsAgreeButOrder ==
    (aux.runs = 2 /\ aux.handler = "Patcher")
        => /\ last.trip_intent = aux.first.trip_intent
           /\ {last.changed_paths[i] : i \in 1..Len(last.changed_paths)}
                  = {aux.first.changed_paths[i] : i \in 1..Len(aux.first.changed_paths)}

---------------------------------------------------------------------------
\* Calls of Reducer.run, Patcher.run and Applier.run for two trips, made on
\* the same three handler instances in any interleaving. aux.docs holds the
\* document of each trip, aux.outs what its calls returned, aux.pos how many
\* of its calls were made, aux.inst what the instances hold.

Trips == {"trip_a", "trip_b"}

\* What the instances hold after construction: Reducer and Patcher have no
\* attribute; Applier holds what it read from the convention file
Instances ==
    [Reducer |-> EmptyDict, Patcher |-> EmptyDict,
     Applier |-> D([_status_updates |->
                      D([booking_confirm_and_purchase |->
                           StatusUpdates("booking_confirm_and_purchase")])])]

\* The mutant keeps the id of the trip it last worked on.
InstancesAfterMutant(inst, handler, trip_intent) ==
    [inst EXCEPT ![handler] = Put(@, "last_trip_id", GetN(trip_intent, "trip_id"))]

\* What the instances hold after a run: run assigns no attribute
InstancesAfter(inst, handler, trip_intent) == inst

ReducerStep(event) ==
    [handler |-> "Reducer", event |-> event, patch |-> None, result |-> NoCall]

PatcherStep(patch) ==
    [handler |-> "Patcher", event |-> NoCall, patch |-> patch, result |-> NoCall]

ApplierStep(result) ==
    [handler |-> "Applier", event |-> NoCall, patch |-> None, result |-> result]

\* What one call returns for a document
CallReturn(trip_intent, call) ==
    IF call.handler = "Reducer"
    THEN LET out == ReducerRun(trip_intent, call.event, 1700000000)
         IN  [trip_intent |-> out.trip_intent, tool_calls |-> out.tool_calls,
              ui_messages |-> out.ui_messages, changed_paths |-> {}]
    ELSE IF call.handler = "Patcher"
    THEN LET out == PatcherRun(trip_intent, call.patch, "user", "")
         IN  [trip_intent |-> out.trip_intent, tool_calls |-> <<>>,
              ui_messages |-> <<>>, changed_paths |-> out.changed_paths]
    ELSE LET out == ApplierRun(trip_intent, call.result.tool_name, call.result.result,
                               call.result.arguments)
         IN  [trip_intent |-> out.trip_intent, tool_calls |-> <<>>,
              ui_messages |-> <<>>, changed_paths |-> {}]

\* The calls of a trip in the order they are made: a first message and its
\* extraction; a quote folded and reduced; a budget change and a selection
Scripts ==
    { <<ReducerStep(Event("USER_MESSAGE", D([text |-> S("yes")]))),
        ApplierStep(ToolResult("noma/flight_quote_search",
                               D([options |-> L(<<FlightOption("f1")>>)]),
                               D([segment_index |-> I(0)]))),
        ReducerStep(Event("TOOL_RESULT", D([tool_name |-> S("noma/flight_quote_search")])))>>,
      <<PatcherStep(D([constraints |-> D([budget_total |-> I(1000)])])),
        ReducerStep(Event("USER_SELECTED_BUNDLE", D([bundle_id |-> S("b1")]))),
        ApplierStep(ToolResult("noma/policy_and_risk_check", RiskReport(<<>>), EmptyDict))>>,
      <<ApplierStep(ToolResult("noma/reservation_hold_create",
                               D([holds |-> L(<<Hold("hold_1", "held")>>)]), EmptyDict)),
        PatcherStep(D([itinerary |-> D([lodging |-> D([needed |-> B(FALSE)])])])),
        ReducerStep(Event("USER_REQUEST_HOLD", EmptyDict))>> }

\* The two documents differ at least by their trip_id
TripDocs(trip) ==
    { Put(d, "trip_id", S(trip)) : d \in {AwaitingDoc, PresentedDoc} }

InitInterleaved ==
    /\ \E da \in TripDocs("trip_a"), db \in TripDocs("trip_b"), sa \in Scripts, sb \in Scripts :
          aux = [start |-> [trip_a |-> da, trip_b |-> db],
                 script |-> [trip_a |-> sa, trip_b |-> sb],
                 docs |-> [trip_a |-> da, trip_b |-> db],
                 outs |-> [trip_a |-> <<>>, trip_b |-> <<>>],
                 pos |-> [trip_a |-> 0, trip_b |-> 0],
                 inst |-> Instances]
    /\ doc = aux.docs["trip_a"]
    /\ last = NoCall

\* The handler of the next call of trip, "" when all its calls are made
NextHandler(trip) ==
    IF aux.pos[trip] < Len(aux.script[trip])
    THEN aux.script[trip][aux.pos[trip] + 1].handler ELSE ""

\* The next call of trip is made on the handler instance
MakeCall(trip, handler) ==
    \E out \in {CallReturn(aux.docs[trip], aux.script[trip][aux.pos[trip] + 1])} :
       /\ doc' = out.trip_intent
       /\ last' = [op |-> handler, trip |-> trip]
       /\ aux' = [aux EXCEPT !.docs[trip] = out.trip_intent,
                             !.outs[trip] = Append(@, out),
                             !.pos[trip] = @ + 1,
                             !.inst = InstancesAfter(aux.inst, handler, aux.docs[trip])]

InterleavedReduce ==
    \E trip \in Trips :
       /\ NextHandler(trip) = "Reducer"
       /\ MakeCall(trip, "Reducer")

InterleavedPatch ==
    \E trip \in Trips :
       /\ NextHandler(trip) = "Patcher"
       /\ MakeCall(trip, "Patcher")

InterleavedApply ==
    \E trip \in Trips :
       /\ NextHandler(trip) = "Applier"
       /\ MakeCall(trip, "Applier")

NextInterleaved == InterleavedReduce \/ InterleavedPatch \/ InterleavedApply

SpecInterleaved == InitInterleaved /\ [][NextInterleaved]_vars

\* The calls of one trip made alone, from its first document: [doc, outs]
RECURSIVE RunAlone(_, _, _)
RunAlone(trip_intent, calls, outs) ==
    IF calls = <<>> THEN [doc |-> trip_intent, outs |-> outs]
    ELSE LET out == CHOOSE o \in {CallReturn(trip_intent, Head(calls))} : TRUE
         IN  RunAlone(out.trip_intent, Tail(calls), Append(outs, out))

\* The calls of trip made so far, made alone
AloneSoFar(trip) ==
    RunAlone(aux.start[trip], SubSeq(aux.script[trip], 1, aux.pos[trip]), <<>>)

---------------------------------------------------------------------------
\* Patcher._deep_merge and Patcher._compute_changed_paths on small documents.
\* aux holds the two documents; doc is the merged document after Merge and
\* last what the operation returned.

\* Values under key "a": scalars, lists, dicts, and a dict inside a list
MergeValues ==
    { I(1), F(1), B(TRUE), S("x"), None,
      L(<<I(1)>>), L(<<B(TRUE)>>), L(<<I(1), I(2)>>), L(<<D([e |-> I(1)])>>),
      L(<<D([e |-> I(2)])>>), EmptyDict,
      D([c |-> I(1)]), D([c |-> I(2), e |-> S("x")]), D([c |-> D([e |-> I(1)])]),
      D([c |-> L(<<I(2)>>)]) }

MergeDocs ==
    { D([k \in {"a"} |-> v]) : v \in MergeValues }
    \cup { D([a |-> v, b |-> I(1)]) : v \in MergeValues }
    \cup { EmptyDict, D([b |-> I(2)]) }

InitMerge ==
    /\ \E dst \in MergeDocs, patch \in MergeDocs : aux = [dst |-> dst, patch |-> patch]
    /\ doc = aux.dst
    /\ last = NoCall

\* _deep_merge(dst, patch)
Merge ==
    /\ last = NoCall
    /\ doc' = _deep_merge(aux.dst, aux.patch)
    /\ last' = [op |-> "_deep_merge"]
    /\ UNCHANGED aux

\* _compute_changed_paths(dst, patch)
Diff ==
    /\ last = NoCall
    /\ last' = [op |-> "_compute_changed_paths",
                paths |-> _compute_changed_paths(aux.dst, aux.patch, "")]
    /\ UNCHANGED <<doc, aux>>

NextMerge == Merge \/ Diff

SpecMerge == InitMerge /\ [][NextMerge]_vars

Merged == last # NoCall /\ last.op = "_deep_merge"

Diffed == last # NoCall /\ last.op = "_compute_changed_paths"

\* merged is dst with patch merged in, as the rule is stated
RECURSIVE MergedAsStated(_, _, _)
MergedAsStated(dst, patch, merged) ==
    /\ IsDict(merged)
    /\ DOMAIN merged[2] = DOMAIN dst[2] \cup DOMAIN patch[2]
    /\ \A k \in DOMAIN merged[2] :
          IF k \notin DOMAIN patch[2] THEN merged[2][k] = dst[2][k]
          ELSE IF k \in DOMAIN dst[2] /\ IsDict(dst[2][k]) /\ IsDict(patch[2][k])
          THEN MergedAsStated(dst[2][k], patch[2][k], merged[2][k])
          ELSE merged[2][k] = patch[2][k]

\* C27: _deep_merge recurses where the document and the patch both hold a
\* dict under a key of the patch and otherwise puts the patch value in place
\* of the document value, whatever the two are; keys the patch does not name
\* keep their value.
C27_MergeAsStated ==
    Merged => MergedAsStated(aux.dst, aux.patch, doc)

\* A list of the document was replaced by a shorter list of the patch
C27_Witness ==
    /\ Merged
    /\ GetN(aux.dst, "a") = L(<<I(1), I(2)>>)
    /\ GetN(aux.patch, "a") = L(<<I(1)>>)
    /\ GetN(doc, "a") = L(<<I(1)>>)
    /\ GetN(doc, "b") = I(1)

\* A dict gave way to None, and a scalar to a dict
DictReplacedByNone ==
    Merged /\ IsDict(GetN(aux.dst, "a")) /\ Has(aux.patch, "a") /\ aux.patch[2]["a"] = None
           /\ doc[2]["a"] = None

ScalarReplacedByDict ==
    Merged /\ GetN(aux.dst, "a") = S("x") /\ GetN(aux.patch, "a") = D([c |-> I(1)])
           /\ GetN(doc, "a") = D([c |-> I(1)])

\* Two dicts were merged key by key
DictsMerged ==
    Merged /\ GetN(aux.dst, "a") = D([c |-> I(2), e |-> S("x")])
           /\ GetN(aux.patch, "a") = D([c |-> D([e |-> I(1)])])
           /\ GetN(doc, "a") = D([c |-> D([e |-> I(1)]), e |-> S("x")])

\* The paths as the rule states them
RECURSIVE PathsAsStated(_, _, _)
PathsAsStated(before, after, path) ==
    UNION { IF k \notin DOMAIN before[2] \/ k \notin DOMAIN after[2] THEN {path \o k}
            ELSE IF IsDict(before[2][k]) /\ IsDict(after[2][k])
            THEN PathsAsStated(before[2][k], after[2][k], path \o k \o ".")
            ELSE IF before[2][k][1] # after[2][k][1] THEN {path \o k}
            ELSE IF ~PyEq(before[2][k], after[2][k]) THEN {path \o k}
            ELSE {}
          : k \in DOMAIN before[2] \cup DOMAIN after[2] }

\* C28 (as stated): _compute_changed_paths returns no path exactly when the
\* two documents are equal.
C28_NoPathIffEqual ==
    Diffed => ((last.paths = {}) <=> PyEq(aux.dst, aux.patch))

\* No path is returned only for equal documents
NoPathOnlyIfEqual ==
    (Diffed /\ last.paths = {}) => PyEq(aux.dst, aux.patch)

\* The paths returned are those of keys on one side only, of values of
\* different type and of lists and scalars that differ; none is inside a list
PathsReturnedAsStated ==
    Diffed => last.paths = PathsAsStated(aux.dst, aux.patch, "")

\* Documents that differ only in a number given as int, float or bool
EqualButForNumberType ==
    Diffed /\ PyEq(aux.dst, aux.patch) /\ last.paths # {}

---------------------------------------------------------------------------
\* Runner._route_user_message_to_event (handlers/runner.py) and the calls
\* Reducer.run returns for the routed event. A text is a string; the regular
\* expressions of the router are matched character by character.

LowerOf ==
    [c \in {"A", "B", "H", "P"} |-> CASE c = "A" -> "a" [] c = "B" -> "b"
                                      [] c = "H" -> "h" [] c = "P" -> "p"]

\* text.lower()
RECURSIVE Lower(_)
Lower(text) ==
    IF text = "" THEN ""
    ELSE (IF SubSeq(text, 1, 1) \in DOMAIN LowerOf THEN LowerOf[SubSeq(text, 1, 1)]
          ELSE SubSeq(text, 1, 1))
         \o Lower(SubSeq(text, 2, Len(text)))

CharAt(text, i) == IF i >= 1 /\ i <= Len(text) THEN SubSeq(text, i, i) ELSE ""

AlnumChars ==
    { "a", "b", "c", "d", "e", "f", "g", "h", "i", "j", "k", "l", "m", "n", "o", "p",
      "q", "r", "s", "t", "u", "v", "w", "x", "y", "z", "A", "B", "H", "P",
      "0", "1", "2", "3", "4", "5", "6", "7", "8", "9" }

\* \w
IsWordChar(c) == c \in AlnumChars \cup {"_"}

\* \b at the gap before position i
WordBoundary(text, i) == IsWordChar(CharAt(text, i - 1)) # IsWordChar(CharAt(text, i))

\* literal at position i
LiteralAt(text, i, literal) ==
    i + Len(literal) - 1 <= Len(text) /\ SubSeq(text, i, i + Len(literal) - 1) = literal

\* re.search(r"\b(w1|w2|...)\b", text) finds something
SearchWords(text, words) ==
    \E i \in 1..Len(text), w \in words :
        WordBoundary(text, i) /\ LiteralAt(text, i, w) /\ WordBoundary(text, i + Len(w))

\* The end of the longest run of characters of the class from position i on:
\* the position after it
RECURSIVE RunEnd(_, _, _)
RunEnd(text, i, space) ==
    IF i > Len(text) THEN i
    ELSE IF (CharAt(text, i) = " ") = space THEN RunEnd(text, i + 1, space)
    ELSE i

RECURSIVE AlnumEnd(_, _)
AlnumEnd(text, i) ==
    IF i <= Len(text) /\ CharAt(text, i) \in AlnumChars THEN AlnumEnd(text, i + 1) ELSE i

\* re.search(r"\b(bndl_[A-Za-z0-9]+)\b", text): group 1 of the leftmost
\* match, None without a match
BundleToken(text) ==
    LET Matches(i) == /\ WordBoundary(text, i)
                      /\ LiteralAt(text, i, "bndl_")
                      /\ AlnumEnd(text, i + 5) > i + 5
                      /\ WordBoundary(text, AlnumEnd(text, i + 5))
        at == { i \in 1..Len(text) : Matches(i) }
    IN  IF at = {} THEN None
        ELSE LET i == CHOOSE m \in at : \A n \in at : m <= n
             IN  S(SubSeq(text, i, AlnumEnd(text, i + 5) - 1))

\* re.search(key + r"\s*=\s*([^\s]+)", text): group 1 of the leftmost match,
\* None without a match
KeyValue(text, key) ==
    LET EqAt(i) == RunEnd(text, i + Len(key), TRUE)
        ValueAt(i) == RunEnd(text, EqAt(i) + 1, TRUE)
        Matches(i) == /\ LiteralAt(text, i, key)
                      /\ CharAt(text, EqAt(i)) = "="
                      /\ RunEnd(text, ValueAt(i), FALSE) > ValueAt(i)
        at == { i \in 1..Len(text) : Matches(i) }
    IN  IF at = {} THEN None
        ELSE LET i == CHOOSE m \in at : \A n \in at : m <= n
             IN  S(SubSeq(text, ValueAt(i), RunEnd(text, ValueAt(i), FALSE) - 1))

\* The mutant is content with one of the two.
ApprovalCompleteMutant(am, pm) == am # None \/ pm # None

\* if am and pm
ApprovalComplete(am, pm) == am # None /\ pm # None

\* _route_user_message_to_event(user_text), user_text without blanks at
\* its ends
_route_user_message_to_event(user_text) ==
    IF BundleToken(user_text) # None
    THEN Event("USER_SELECTED_BUNDLE", D([bundle_id |-> BundleToken(user_text)]))
    ELSE IF SearchWords(Lower(user_text), {"hold", "place hold", "holds"})
    THEN Event("USER_REQUEST_HOLD", EmptyDict)
    ELSE IF \/ Contains(Lower(user_text), "approve")
            \/ Contains(Lower(user_text), "confirm purchase")
            \/ SearchWords(Lower(user_text), {"buy", "purchase"})
    THEN IF ApprovalComplete(KeyValue(user_text, "approval_token"),
                             KeyValue(user_text, "payment_method_id"))
         THEN Event("USER_APPROVED_PURCHASE",
                    D([approval_token |-> KeyValue(user_text, "approval_token"),
                       payment_method_id |-> KeyValue(user_text, "payment_method_id")]))
         ELSE Event("USER_MESSAGE", D([text |-> S(user_text)]))
    ELSE Event("USER_MESSAGE", D([text |-> S(user_text)]))

\* What a user may type, word by word
RouterWords ==
    { "bndl_a1", "hold", "household", "Approve", "buy",
      "approval_token=tok", "payment_method_id=pm_1", "approval_token=" }

MaxWords == 3

RECURSIVE JoinWords(_)
JoinWords(words) ==
    IF words = <<>> THEN ""
    ELSE IF Len(words) = 1 THEN words[1]
    ELSE words[1] \o " " \o JoinWords(Tail(words))

RouterTexts ==
    { JoinWords(ws) : ws \in UNION { [1..n -> RouterWords] : n \in 1..MaxWords } }

\* Documents with a held hold, with expired holds only, and without holds
RouterDocs ==
    { PresentedDoc, AwaitingDoc,
      Put(PresentedDoc, "working_memory",
          Put(BookableMemory, "holds", L(<<Hold("hold_2", "expired")>>))) }

\* The events the Runner and the Sprinter reduce without a user text
ToolEvents ==
    { Event("TOOL_RESULT", D([tool_name |-> S("trip_requirements_extract"),
                              user_message |-> S("yes")])),
      Event("TOOL_RESULT", D([tool_name |-> S("noma/reservation_hold_create")])),
      Event("TOOL_RESULT", D([tool_name |-> S("noma/booking_confirm_and_purchase")])),
      Event("INTENT_READY", EmptyDict) }

InitRouter ==
    /\ doc \in RouterDocs
    /\ last = NoCall
    /\ \E text \in RouterTexts : aux = [text |-> text, event |-> NoCall, before |-> doc]

\* event = self._route_user_message_to_event(user_text)
Route ==
    /\ last = NoCall
    /\ last' = [op |-> "_route_user_message_to_event"]
    /\ aux' = [aux EXCEPT !.event = _route_user_message_to_event(aux.text)]
    /\ UNCHANGED doc

\* reduced = self.reducer.run({trip_intent, event}) for the routed event
ReduceRouted ==
    /\ last # NoCall
    /\ last.op = "_route_user_message_to_event"
    /\ \E out \in {ReducerRun(doc, aux.event, 1700000000)} :
          /\ doc' = out.trip_intent
          /\ last' = [op |-> "Reducer.run", tool_calls |-> out.tool_calls,
                      ui_messages |-> out.ui_messages]
    /\ UNCHANGED aux

\* Reducer.run for an event that no user text stands behind
ReduceToolEvent ==
    /\ last = NoCall
    /\ \E event \in ToolEvents :
          \E out \in {ReducerRun(doc, event, 1700000000)} :
             /\ doc' = out.trip_intent
             /\ last' = [op |-> "Reducer.run", tool_calls |-> out.tool_calls,
                         ui_messages |-> out.ui_messages]
             /\ aux' = [aux EXCEPT !.event = event, !.text = ""]

NextRouter == Route \/ ReduceRouted \/ ReduceToolEvent

SpecRouter == InitRouter /\ [][NextRouter]_vars

Routed == aux.event # NoCall /\ aux.text # ""

PurchaseCalled ==
    /\ last # NoCall
    /\ last.op = "Reducer.run"
    /\ \E i \in 1..Len(last.tool_calls) :
          last.tool_calls[i].name = "noma/booking_confirm_and_purchase"

\* The text names the key with a value behind its "="
Carries(text, key) ==
    \E i \in 1..Len(text) :
        /\ LiteralAt(text, i, key \o "=")
        /\ \E j \in (i + Len(key) + 1)..Len(text) : CharAt(text, j) # " "

\* C31: Reducer.run returns a call of noma/booking_confirm_and_purchase only
\* for the event USER_APPROVED_PURCHASE, and the router makes that event only
\* from a text that carries approval_token and payment_method_id.
C31_PurchaseOnlyOnApproval ==
    /\ PurchaseCalled => aux.event.type = "USER_APPROVED_PURCHASE"
    /\ (Routed /\ aux.event.type = "USER_APPROVED_PURCHASE") =>
          /\ Carries(aux.text, "approval_token")
          /\ Carries(aux.text, "payment_method_id")
          /\ Truthy(GetN(aux.event.data, "approval_token"))
          /\ Truthy(GetN(aux.event.data, "payment_method_id"))

\* A text with both values was routed and reduced on a document with a held
\* hold, and the purchase was called
C31_Witness ==
    /\ PurchaseCalled
    /\ Routed
    /\ aux.text = "buy approval_token=tok payment_method_id=pm_1"

\* A word of approval without the two values is an ordinary message
ApprovalWithoutValuesIsMessage ==
    (Routed /\ aux.text \in {"Approve", "buy approval_token=tok", "household buy"}) =>
        aux.event.type = "USER_MESSAGE"

---------------------------------------------------------------------------
\* The end of the dispatch loop

\* The loop is taken up again whenever it can go on: the handlers it calls
\* return
SpecRunnerFair == SpecRunner /\ WF_vars(NextRunner)

RunsPerNameBounded == \A n \in RunnerToolNames : aux.ran[n] <= MAX_RUNS_PER_TOOL_NAME

PopsBounded == aux.popped <= MAX_TOOL_RUNS_PER_TURN

\* C36: every turn of the dispatch loop ends; in the turn no tool name is run
\* more than MAX_RUNS_PER_TOOL_NAME times and no more than
\* MAX_TOOL_RUNS_PER_TURN calls are taken from the queue.
C36_TurnTerminates ==
    /\ [](RunsPerNameBounded /\ PopsBounded)
    /\ <>aux.done

\* A turn ended after a flight search that kept coming back was run three
\* times and then skipped
C36_Witness ==
    /\ aux.done
    /\ aux.ran["noma/flight_quote_search"] = MAX_RUNS_PER_TOOL_NAME
    /\ aux.popped > aux.ran["noma/flight_quote_search"]
    /\ aux.runaway

\* A turn ended with MAX_TOOL_RUNS_PER_TURN calls taken and more in the queue
TotalLimitReached ==
    aux.done /\ aux.popped = MAX_TOOL_RUNS_PER_TURN /\ aux.queue # <<>>

---------------------------------------------------------------------------
\* Quoting within one turn

\* Every operation of the turn so far succeeded and found something
AllSucceeded == ~aux.failed /\ ~aux.empty

\* The turn quoted: at least one flight search was run in it
QuotingTurn == aux.ran["noma/flight_quote_search"] >= 1

Presenting(d) ==
    /\ State(d) = S("presenting_options")
    /\ Truthy(AtPath(d, <<"working_memory", "ranked_bundles">>))

\* C37: a turn that quotes a confirmed trip, and in which every operation
\* succeeds with a result that is not empty, ends with ranked bundles in
\* state presenting_options, however many flights and stays the trip has.
C37_QuotedWithinTurn ==
    (aux.done /\ AllSucceeded /\ QuotingTurn) => Presenting(doc)

\* Three flights and two stays are quoted and ranked in the turn
ThreeLegsPresented ==
    /\ aux.done /\ AllSucceeded
    /\ aux.ran["noma/flight_quote_search"] = 3
    /\ aux.ran["noma/hotel_quote_search"] = 2
    /\ Presenting(doc)

\* With four flights, the fourth search is skipped and the turn ends in
\* quoting_flights
FourthLegSkipped ==
    /\ aux.done /\ AllSucceeded /\ aux.runaway
    /\ Len(_get_flight_segment_indices(doc)) = 4
    /\ State(doc) = S("quoting_flights")

---------------------------------------------------------------------------
\* Leaving (error, retryable)

\* C40: on USER_MESSAGE a document in (error, retryable) goes to (intake,
\* collecting_requirements), loses status.last_tool_error and gets the
\* extraction call; and no event other than TOOL_ERROR takes a document into
\* (error, retryable), so a turn of successes that starts with the message
\* does not end there.
C40_UserMessageLeavesError ==
    /\ (Reduced /\ aux.event.type = "USER_MESSAGE" /\ ErrorRetryable(aux.before))
           => /\ Phase(doc) = S("intake")
              /\ State(doc) = S("collecting_requirements")
              /\ ~Has(Get(doc, "status", EmptyDict), "last_tool_error")
              /\ CallNames(last.tool_calls) = <<"trip_requirements_extract">>
    /\ (Reduced /\ aux.event.type # "TOOL_ERROR" /\ ~ErrorRetryable(aux.before))
           => ~ErrorRetryable(doc)

\* A message reduced on a document that a failed flight search had left in
\* (error, retryable) with its caches filled
C40_Witness ==
    /\ Reduced
    /\ aux.event.type = "USER_MESSAGE"
    /\ ErrorRetryable(aux.before)
    /\ Has(Get(aux.before, "status", EmptyDict), "last_tool_error")
    /\ Truthy(AtPath(aux.before, <<"working_memory", "ranked_bundles">>))
    /\ State(doc) = S("collecting_requirements")
    /\ ~Has(Get(doc, "status", EmptyDict), "last_tool_error")

\* The dispatch loop: a turn that ended with no failed operation and without
\* the limit on the runs of a turn is not in (error, retryable) and holds no
\* last_tool_error
TurnOfSuccessesLeavesError ==
    (aux.done /\ ~aux.failed /\ last.op # "runaway_stop")
        => /\ ~ErrorRetryable(doc)
           /\ ~Has(Get(doc, "status", EmptyDict), "last_tool_error")

---------------------------------------------------------------------------
\* Turns of selecting, holding and purchasing. Each user event is reduced
\* (Runner.run) and the calls it returns are dispatched one by one
\* (Runner._run_tool_queue_and_followups): the result is folded by the
\* Applier and reduced as TOOL_RESULT, a failure is reduced as TOOL_ERROR.
\* aux.queue holds the calls still to dispatch, aux.turns the turns begun,
\* aux.checked the bundle_id for which the stored risk report was produced
\* ("" when none was folded).

MaxTurns == 4

BundleOf(id, flight, hotel) ==
    D([bundle_id |-> S(id), flight_option_id |-> S(flight), hotel_option_id |-> S(hotel),
       flight_option_ids |-> L(<<S(flight)>>), hotel_option_ids |-> L(<<S(hotel)>>)])

\* Two bundles were presented, none is selected, no risk report, no holds
BookingDoc ==
    Put(PresentedDoc, "working_memory",
        Put(Put(Put(Put(QuotedAll[2]["working_memory"],
            "ranked_bundles", L(<<BundleOf("b1", "f1", "h1"), BundleOf("b2", "f2", "h1")>>)),
            "selected", EmptySelected),
            "risk_report", None),
            "holds", EmptyList))

\* What the user does in a turn; "b9" is no bundle of ranked_bundles
BookingEvents ==
    { Event("USER_SELECTED_BUNDLE", D([bundle_id |-> S(b)])) : b \in {"b1", "b2", "b9"} }
    \cup { Event("USER_REQUEST_HOLD", EmptyDict),
           Event("USER_APPROVED_PURCHASE",
                 D([approval_token |-> S("tok"), payment_method_id |-> S("pm_1")])) }

\* What the operations hand back: the hold operation holds what it is
\* asked for and names the hold after the idempotency_key of the call
BookingOutcomes(tc) ==
    CASE tc.name = "noma/policy_and_risk_check" ->
             { Returned(HandlerResult(RiskReport(<<>>))),
               Returned(HandlerResult(RiskReport(<<S("over budget")>>))),
               Returned(HandlerFailure) }
      [] tc.name = "noma/reservation_hold_create" ->
             { Returned(HandlerResult(
                   D([holds |-> L(<<D([hold_id |-> GetN(tc.arguments, "idempotency_key"),
                                       status |-> S("held")])>>)]))),
               Returned(HandlerFailure) }
      [] tc.name = "noma/booking_confirm_and_purchase" ->
             { Returned(HandlerResult(D([confirmation |-> D([booking_id |-> S("bk_1")])]))),
               Returned(HandlerFailure) }
      [] OTHER -> { Raised("not a valid tool") }

SelectedBundleId(d) ==
    PyStr(Or(AtPath(d, <<"working_memory", "selected", "bundle_id">>), S("")))

InitBooking ==
    /\ doc = BookingDoc
    /\ last = NoCall
    /\ aux = [queue |-> <<>>, turns |-> 0, checked |-> ""]

\* Runner.run: the user event is reduced and its calls are queued
UserTurn ==
    /\ aux.queue = <<>>
    /\ aux.turns < MaxTurns
    /\ \E event \in BookingEvents :
          \E out \in {ReducerRun(doc, event, 1700000000)} :
             /\ doc' = out.trip_intent
             /\ last' = [op |-> "Runner.run", event |-> event.type, before |-> doc,
                         names |-> CallNames(out.tool_calls)]
             /\ aux' = [aux EXCEPT !.queue = out.tool_calls, !.turns = @ + 1]

\* The call at the head of the queue succeeds
BookingSucceeds ==
    /\ aux.queue # <<>>
    /\ \E outcome \in BookingOutcomes(Head(aux.queue)) :
          /\ ~Raises(Head(aux.queue).name, outcome)
          /\ \E applied \in {AfterApplier(doc, Head(aux.queue), outcome.result)} :
             \E out \in {ReducedResult(applied, Head(aux.queue), outcome.result,
                                       1700000000)} :
                /\ doc' = out.trip_intent
                /\ last' = [op |-> "dispatch", event |-> "TOOL_RESULT", before |-> doc,
                            names |-> CallNames(out.tool_calls)]
                /\ aux' = [aux EXCEPT
                             !.queue = Tail(@) \o out.tool_calls,
                             !.checked = IF Head(aux.queue).name = "noma/policy_and_risk_check"
                                         THEN SelectedBundleId(doc) ELSE @]

\* The call at the head of the queue fails: the rest of the queue still runs
BookingFails ==
    /\ aux.queue # <<>>
    /\ \E outcome \in BookingOutcomes(Head(aux.queue)) :
          /\ Raises(Head(aux.queue).name, outcome)
          /\ \E out \in {ReducedError(doc, Head(aux.queue), outcome, 1700000000)} :
                /\ doc' = out.trip_intent
                /\ last' = [op |-> "dispatch", event |-> "TOOL_ERROR", before |-> doc,
                            names |-> CallNames(out.tool_calls)]
                /\ aux' = [aux EXCEPT !.queue = Tail(@)]

NextBooking == UserTurn \/ BookingSucceeds \/ BookingFails

SpecBooking == InitBooking /\ [][NextBooking]_vars

HoldReturned ==
    /\ last # NoCall
    /\ \E i \in 1..Len(last.names) : last.names[i] = "noma/reservation_hold_create"

\* C32: Reducer.run returns noma/reservation_hold_create only when the
\* working memory holds a risk report that a policy_and_risk_check produced
\* for the bundle now selected.
C32_HoldOnlyAfterRiskCheck ==
    HoldReturned =>
        /\ Truthy(AtPath(doc, <<"working_memory", "risk_report">>))
        /\ aux.checked = SelectedBundleId(doc)

\* With a report that names a blocking issue no hold call is returned
BlockingReportStopsHold ==
    (last # NoCall /\ last.event = "USER_REQUEST_HOLD"
       /\ Truthy(AtPath(last.before, <<"working_memory", "risk_report", "blocking_issues">>)))
        => ~HoldReturned

\* A hold call was returned although no report was ever folded, and although
\* the stored report is that of another bundle
HoldWithoutReport ==
    HoldReturned /\ aux.checked = ""

HoldOnOtherBundlesReport ==
    HoldReturned /\ aux.checked # "" /\ aux.checked # SelectedBundleId(doc)


HeldHolds(d) ==
    SelectSeq(Or(AtPath(d, <<"working_memory", "holds">>), EmptyList)[2],
              LAMBDA h : GetN(h, "status") = S("held"))

\* The hold was made for the call whose idempotency_key names the bundle
HoldOfBundle(hold, bundle_id) ==
    GetN(hold, "hold_id") = S("hold_trip_1_" \o bundle_id)

\* C33: every hold with status held in working_memory.holds was created for
\* the bundle that working_memory.selected names.
C33_HeldHoldsAreOfSelected ==
    \A i \in 1..Len(HeldHolds(doc)) : HoldOfBundle(HeldHolds(doc)[i], SelectedBundleId(doc))

\* Right after the hold operation's result was folded the held holds are
\* those of the selected bundle
HoldsOfSelectedWhenFolded ==
    (last # NoCall /\ last.op = "dispatch" /\ last.event = "TOOL_RESULT"
       /\ HeldHolds(doc) # HeldHolds(last.before)) =>
        C33_HeldHoldsAreOfSelected

\* Another bundle was selected and the holds of the previous one are still held
HoldsOfPreviousBundleKept ==
    /\ last # NoCall
    /\ last.event = "USER_SELECTED_BUNDLE"
    /\ SelectedBundleId(doc) = "b2"
    /\ HeldHolds(doc) # <<>>
    /\ HoldOfBundle(HeldHolds(doc)[1], "b1")

\* The purchase is called for the holds of a bundle that is not the selected one
PurchaseOfPreviousBundle ==
    /\ last # NoCall
    /\ last.event = "USER_APPROVED_PURCHASE"
    /\ last.names = <<"noma/booking_confirm_and_purchase">>
    /\ ~C33_HeldHoldsAreOfSelected

RankedBundle(d, bundle_id) ==
    SelectSeq(Or(AtPath(d, <<"working_memory", "ranked_bundles">>), EmptyList)[2],
              LAMBDA b : GetN(b, "bundle_id") = S(bundle_id))

SelectedIds(d, key) ==
    Or(AtPath(d, <<"working_memory", "selected", key>>), EmptyList)

UserSelected == last # NoCall /\ last.op = "Runner.run" /\ last.event = "USER_SELECTED_BUNDLE"

\* C34: after Reducer.run on USER_SELECTED_BUNDLE the option ids of selected
\* are those of the bundle of ranked_bundles that bundle_id names, and none
\* when bundle_id names no bundle of ranked_bundles.
C34_SelectedIsConsistent ==
    UserSelected =>
        \A key \in {"flight_option_ids", "hotel_option_ids"} :
            SelectedIds(doc, key) =
                IF RankedBundle(doc, SelectedBundleId(doc)) # <<>>
                THEN Or(GetN(RankedBundle(doc, SelectedBundleId(doc))[1], key), EmptyList)
                ELSE EmptyList

\* For a bundle of ranked_bundles the option ids are the bundle's
KnownBundleIsCopied ==
    (UserSelected /\ RankedBundle(doc, SelectedBundleId(doc)) # <<>>) =>
        \A key \in {"flight_option_ids", "hotel_option_ids"} :
            SelectedIds(doc, key) = GetN(RankedBundle(doc, SelectedBundleId(doc))[1], key)

\* An unknown bundle_id stands over the option ids of the bundle before it
UnknownBundleKeepsIds ==
    /\ UserSelected
    /\ SelectedBundleId(doc) = "b9"
    /\ SelectedBundleId(last.before) = "b2"
    /\ SelectedIds(doc, "flight_option_ids") = L(<<S("f2")>>)

====
